---- MODULE Spec2Model ----
(***************************************************************************)
(* The value model of go_container_system (package core and package        *)
(* values) and its binary codec (ArrayValue.ToBinaryBytes,                  *)
(* DeserializeArrayValue, deserializeValue).                                *)
(*                                                                         *)
(* Representation choices                                                  *)
(*   - A Go string or []byte is a sequence of bytes (0..255).              *)
(*   - A Go slice is a record [arr, len]: arr is the backing array from    *)
(*     the slice's first element up to its capacity, len its length.       *)
(*     An index expression needs i < len, a slice expression s[a:b] needs  *)
(*     b <= cap (the language rule for slices), s[a:] needs a <= len.      *)
(*   - TLC's integers are 32 bits wide, so a Go integer of up to 64 bits   *)
(*     is a tuple <<l0, l1, l2, l3>> of 16-bit limbs, least significant    *)
(*     first, denoting l0 + l1*2^16 + l2*2^32 + l3*2^48 with l0..l2 in     *)
(*     0..65535 and l3 in -32768..65535.  Every integer of [-2^63, 2^64)   *)
(*     has exactly one such tuple, so numeric equality is tuple equality.  *)
(*   - A float is [neg, exp, man, low]: sign, unbiased exponent, the top   *)
(*     23 mantissa bits and the low 29 mantissa bits (0 for a float32).    *)
(*   - int is taken to be 64 bits wide (a 64-bit build).                   *)
(***************************************************************************)
EXTENDS Integers, Sequences, FiniteSets

VARIABLES
    pc,        \* codec: "build", "encoded" or "decoded"
    val,       \* codec: the value that was built and encoded
    buf,       \* codec: the byte slice handed to the decoder
    org,       \* codec: how buf was made
    res,       \* codec: what the decoder returned
    made,      \* values: what the last constructor call returned
    conv,      \* values: the last conversion requested and its result
    children,  \* lookup: the children of a ContainerValue
    units,     \* lookup: the units of a ValueContainer
    got,       \* lookup: the last lookup and its result
    kept,      \* lookup: history, per collection the values added and not
               \* removed since, in the order of their insertion
    array,     \* array: the ArrayValue, Nil before it is constructed
    appended,  \* array: history, the elements given to the constructor and
               \* to Append since the last Clear
    at,        \* array: the last call of At and its result
    threadSafe, \* goroutines: the threadSafe flag of the shared ValueContainer
    mu,        \* goroutines: its RWMutex, the writer (0: none) and the readers
    cunits,    \* goroutines: its units
    running,   \* goroutines: per goroutine the call it is in, with the units
               \* it read on entry
    calls,     \* goroutines: history, the number of calls made so far
    onlyAdds,  \* goroutines: history, every call so far was an AddValue
    store,     \* store: the ValueStore, its map, its flag and its counters
    mutex,     \* store: its RWMutex
    inside,    \* store: per worker the call it is in
    last,      \* store: the call that returned last, what it returned, and
               \* the map it found
    tally,     \* store: history, the calls since the last ResetStatistics
               \* (Add; Get that found its key; serializations), the calls
               \* in all, whether no two calls were ever in progress together,
               \* and whether every call was an Add of a key not added before
    heap,      \* copy: the two arrays that back the units of the containers
    boxes,     \* copy: the ValueContainer (orig) and its copy (dup)
    expect,    \* copy: history, per container the values that its own
               \* AddValue, RemoveValue and ClearValues calls leave in it
    text,      \* kinds: the last text of a kind, and the kind it is String of
    parsed,    \* kinds: the last text given to ParseValueType and its result
    phase,     \* header: "build", "sent" or "loaded"
    sender,    \* header: the ValueContainer that is serialized
    sent,      \* header: what its Serialize or SerializeArray returned
    loaded,    \* header: the fresh container after Deserialize, and the error
    stage,     \* binary: "build", "encoded" or "decoded"
    entries,   \* binary: the entries of the ValueStore, in the order in which
               \* SerializeBinary iterates over its map
    bin,       \* binary: the byte slice handed to DeserializeBinary
    origin,    \* binary: how bin was made, and where it was changed
    out,       \* binary: what DeserializeBinary returned
    arrays,    \* builder: the arrays that back the slices of values
    builder,   \* builder: the ContainerBuilder, its values
    built,     \* builder: the containers it built, NotBuilt before
    wanted     \* builder: history, per container the values of the builder
               \* when it was built and the values added to it since

codecVars == <<pc, val, buf, org, res>>
valueVars == <<made, conv>>
lookupVars == <<children, units, got, kept>>
arrayVars == <<array, appended, at>>
sharedVars == <<threadSafe, mu, cunits, running, calls, onlyAdds>>
storeVars == <<store, mutex, inside, last, tally>>
copyVars == <<heap, boxes, expect>>
kindVars == <<text, parsed>>
headerVars == <<phase, sender, sent, loaded>>
binaryVars == <<stage, entries, bin, origin, out>>
builderVars == <<arrays, builder, built, wanted>>
thirdVars == <<kindVars, headerVars, binaryVars, builderVars>>
laterVars == <<arrayVars, sharedVars, storeVars, copyVars, thirdVars>>
arrayRest ==
    <<codecVars, valueVars, lookupVars, sharedVars, storeVars, copyVars, thirdVars>>
sharedRest ==
    <<codecVars, valueVars, lookupVars, arrayVars, storeVars, copyVars, thirdVars>>
storeRest ==
    <<codecVars, valueVars, lookupVars, arrayVars, sharedVars, copyVars, thirdVars>>
copyRest ==
    <<codecVars, valueVars, lookupVars, arrayVars, sharedVars, storeVars, thirdVars>>
earlierVars ==
    <<codecVars, valueVars, lookupVars, arrayVars, sharedVars, storeVars, copyVars>>
kindRest == <<earlierVars, headerVars, binaryVars, builderVars>>
headerRest == <<earlierVars, kindVars, binaryVars, builderVars>>
binaryRest == <<earlierVars, kindVars, headerVars, builderVars>>
builderRest == <<earlierVars, kindVars, headerVars, binaryVars>>
vars == <<codecVars, valueVars, lookupVars, laterVars>>

(***************************************************************************)
(* Bounds of the model.                                                    *)
(***************************************************************************)
MaxNameLen == 2
MaxElems == 2
MaxChildren == 3
MaxGoroutines == 2
MaxCalls == 3

(***************************************************************************)
(* ValueType: the wire codes.                                              *)
(***************************************************************************)
NullValue == 0
BoolValue == 1
ShortValue == 2
UShortValue == 3
IntValue == 4
UIntValue == 5
LongValue == 6
ULongValue == 7
LLongValue == 8
ULLongValue == 9
FloatValue == 10
DoubleValue == 11
BytesValue == 12
StringValue == 13
ContainerValue == 14
ArrayValue == 15

(***************************************************************************)
(* Integers as 16-bit limbs, and Go's integer conversions (keep the low    *)
(* bits, then sign- or zero-extend).                                       *)
(***************************************************************************)
B16 == 256 * 256

WZero == <<0, 0, 0, 0>>

WOfInt(n) ==
    IF n < 0 THEN <<n % B16, (n \div B16) + B16, B16 - 1, -1>>
    ELSE <<n % B16, n \div B16, 0, 0>>

WLess(x, y) ==
    \/ x[4] < y[4]
    \/ x[4] = y[4] /\ x[3] < y[3]
    \/ x[4] = y[4] /\ x[3] = y[3] /\ x[2] < y[2]
    \/ x[4] = y[4] /\ x[3] = y[3] /\ x[2] = y[2] /\ x[1] < y[1]

int16(x) ==
    IF x[1] >= 32768 THEN <<x[1], B16 - 1, B16 - 1, -1>> ELSE <<x[1], 0, 0, 0>>

uint16(x) == <<x[1], 0, 0, 0>>

int32(x) ==
    IF x[2] >= 32768 THEN <<x[1], x[2], B16 - 1, -1>> ELSE <<x[1], x[2], 0, 0>>

uint32(x) == <<x[1], x[2], 0, 0>>

int64(x) == <<x[1], x[2], x[3], IF x[4] >= 32768 THEN x[4] - B16 ELSE x[4]>>

uint64(x) == <<x[1], x[2], x[3], IF x[4] < 0 THEN x[4] + B16 ELSE x[4]>>

\* binary.LittleEndian.PutUint16 / PutUint32 / PutUint64 on a fresh buffer
PutUint16(u) == <<u[1] % 256, u[1] \div 256>>

PutUint32(u) == <<u[1] % 256, u[1] \div 256, u[2] % 256, u[2] \div 256>>

PutUint64(u) ==
    <<u[1] % 256, u[1] \div 256, u[2] % 256, u[2] \div 256,
      u[3] % 256, u[3] \div 256, u[4] % 256, u[4] \div 256>>

(***************************************************************************)
(* Floats: math.Float32bits, math.Float64bits, their inverses, and the     *)
(* conversion float64(float32), which is exact.                            *)
(***************************************************************************)
Float32bits(f) ==
    <<f.man % B16, f.neg * 32768 + (f.exp + 127) * 128 + f.man \div B16, 0, 0>>

Float32frombits(w) ==
    [neg |-> w[2] \div 32768,
     exp |-> (w[2] % 32768) \div 128 - 127,
     man |-> (w[2] % 128) * B16 + w[1],
     low |-> 0]

Float64bits(f) ==
    <<f.low % B16,
      (f.man % 8) * 8192 + f.low \div B16,
      (f.man % 524288) \div 8,
      f.neg * 32768 + (f.exp + 1023) * 16 + f.man \div 524288>>

Float64frombits(w) ==
    [neg |-> w[4] \div 32768,
     exp |-> (w[4] % 32768) \div 16 - 1023,
     man |-> (w[4] % 16) * 524288 + w[3] * 8 + w[2] \div 8192,
     low |-> (w[2] % 8192) * B16 + w[1]]

float64(f) ==
    IF f.exp = -127 /\ f.man = 0 THEN [f EXCEPT !.exp = -1023]
    ELSE IF f.exp = 128 THEN [f EXCEPT !.exp = 1024]
    ELSE IF f.exp = -127
         THEN LET p == CHOOSE q \in 0..22 : 2^q <= f.man /\ f.man < 2^(q + 1)
              IN  [neg |-> f.neg, exp |-> p - 149,
                   man |-> (f.man - 2^p) * 2^(23 - p), low |-> 0]
    ELSE f

(***************************************************************************)
(* Values.  typ is the Go type behind the core.Value interface (it decides *)
(* which methods run), kind and data are BaseValue.vtype and               *)
(* BaseValue.data, value is the struct's own field, elems the children of  *)
(* a ContainerValue or the elements of an ArrayValue.                      *)
(***************************************************************************)
FZero == [neg |-> 0, exp |-> -127, man |-> 0, low |-> 0]

NoNative == [b |-> FALSE, i |-> WZero, f |-> FZero, s |-> <<>>]

NativeBool(b) == [NoNative EXCEPT !.b = b]

NativeInt(i) == [NoNative EXCEPT !.i = i]

NativeFloat(f) == [NoNative EXCEPT !.f = f]

NativeBytes(s) == [NoNative EXCEPT !.s = s]

\* a nil core.Value (or nil *ArrayValue, *LongValue, ...)
Nil ==
    [typ |-> "nil", kind |-> -1, name |-> <<>>, data |-> <<>>,
     value |-> NoNative, elems |-> <<>>]

NewBaseValue(name, vtype, data) ==
    [typ |-> "BaseValue", kind |-> vtype, name |-> name, data |-> data,
     value |-> NoNative, elems |-> <<>>]

NewNullValue(name) ==
    [NewBaseValue(name, NullValue, <<>>) EXCEPT !.typ = "NullValue"]

NewBoolValue(name, value) ==
    [NewBaseValue(name, BoolValue, <<IF value THEN 1 ELSE 0>>)
       EXCEPT !.typ = "BoolValue", !.value = NativeBool(value)]

NewInt16Value(name, value) ==
    [NewBaseValue(name, ShortValue, PutUint16(uint16(value)))
       EXCEPT !.typ = "Int16Value", !.value = NativeInt(value)]

NewUInt16Value(name, value) ==
    [NewBaseValue(name, UShortValue, PutUint16(value))
       EXCEPT !.typ = "UInt16Value", !.value = NativeInt(value)]

NewInt32Value(name, value) ==
    [NewBaseValue(name, IntValue, PutUint32(uint32(value)))
       EXCEPT !.typ = "Int32Value", !.value = NativeInt(value)]

NewUInt32Value(name, value) ==
    [NewBaseValue(name, UIntValue, PutUint32(value))
       EXCEPT !.typ = "UInt32Value", !.value = NativeInt(value)]

NewInt64Value(name, value) ==
    [NewBaseValue(name, LLongValue, PutUint64(uint64(value)))
       EXCEPT !.typ = "Int64Value", !.value = NativeInt(value)]

NewUInt64Value(name, value) ==
    [NewBaseValue(name, ULLongValue, PutUint64(value))
       EXCEPT !.typ = "UInt64Value", !.value = NativeInt(value)]

NewFloat32Value(name, value) ==
    [NewBaseValue(name, FloatValue, PutUint32(Float32bits(value)))
       EXCEPT !.typ = "Float32Value", !.value = NativeFloat(value)]

NewFloat64Value(name, value) ==
    [NewBaseValue(name, DoubleValue, PutUint64(Float64bits(value)))
       EXCEPT !.typ = "Float64Value", !.value = NativeFloat(value)]

NewBytesValue(name, value) ==
    [NewBaseValue(name, BytesValue, value)
       EXCEPT !.typ = "BytesValue", !.value = NativeBytes(value)]

NewStringValue(name, value) ==
    [NewBaseValue(name, StringValue, value)
       EXCEPT !.typ = "StringValue", !.value = NativeBytes(value)]

NewContainerValue(name, kids) ==
    [NewBaseValue(name, ContainerValue, <<>>)
       EXCEPT !.typ = "ContainerValue", !.elems = kids]

NewArrayValue(name, elements) ==
    [NewBaseValue(name, ArrayValue, <<>>)
       EXCEPT !.typ = "ArrayValue", !.elems = elements]

(***************************************************************************)
(* LongValue / ULongValue: the constructors with the 32-bit range policy.  *)
(* A constructor call returns [v, err]; err = "" is a nil error.           *)
(***************************************************************************)
int32Min == <<0, 32768, B16 - 1, -1>>

int32Max == <<B16 - 1, 32767, 0, 0>>

uint32Max == <<B16 - 1, B16 - 1, 0, 0>>

\* NewLongValue without its range check: the value is truncated
NewLongValue_unchecked(name, value) ==
    [v |-> [NewBaseValue(name, LongValue, PutUint32(uint32(int32(value))))
              EXCEPT !.typ = "LongValue", !.value = NativeInt(int32(value))],
     err |-> ""]

NewLongValue(name, value) ==
    IF WLess(value, int32Min) \/ WLess(int32Max, value)
    THEN [v |-> Nil, err |-> "LongValue: value exceeds 32-bit range"]
    ELSE LET val32 == int32(value)
         IN  [v |-> [NewBaseValue(name, LongValue, PutUint32(uint32(val32)))
                       EXCEPT !.typ = "LongValue", !.value = NativeInt(val32)],
              err |-> ""]

NewULongValue(name, value) ==
    IF WLess(uint32Max, value)
    THEN [v |-> Nil, err |-> "ULongValue: value exceeds 32-bit range"]
    ELSE LET val32 == uint32(value)
         IN  [v |-> [NewBaseValue(name, ULongValue, PutUint32(val32))
                       EXCEPT !.typ = "ULongValue", !.value = NativeInt(val32)],
              err |-> ""]

(***************************************************************************)
(* Conversions.  A call returns [r, err]: r the returned value (the zero   *)
(* value on an error), err = "" a nil error.  A type that does not define  *)
(* the method gets the one promoted from the embedded *BaseValue.          *)
(***************************************************************************)
Returns(r) == [r |-> r, err |-> ""]

Fails(msg) == [r |-> NoNative, err |-> msg]

BaseValue_IsNull(v) == v.kind = NullValue

\* a conversion that hands out the zero value with a nil error
BaseValue_Convert_zero(v, to) == Returns(NoNative)

BaseValue_Convert(v, to) ==
    IF BaseValue_IsNull(v) THEN Fails("cannot convert null_value to " \o to)
    ELSE Fails("type conversion not supported")

BaseValue_ToString(v) ==
    IF BaseValue_IsNull(v) THEN Returns(NativeBytes(<<>>))
    ELSE Fails("type conversion not supported")

BaseValue_ToBytes(v) == Returns(NativeBytes(v.data))

ToBool(v) ==
    CASE v.typ = "BoolValue" -> Returns(NativeBool(v.value.b))
      [] OTHER -> BaseValue_Convert(v, "bool")

ToInt16(v) ==
    CASE v.typ = "Int16Value" -> Returns(NativeInt(v.value.i))
      [] OTHER -> BaseValue_Convert(v, "int16")

ToUInt16(v) ==
    CASE v.typ = "UInt16Value" -> Returns(NativeInt(v.value.i))
      [] OTHER -> BaseValue_Convert(v, "uint16")

\* ToInt32 with a truncating conversion added to Int64Value
ToInt32_narrowing(v) ==
    CASE v.typ = "Int64Value" -> Returns(NativeInt(int32(v.value.i)))
      [] OTHER -> BaseValue_Convert(v, "int32")

ToInt32(v) ==
    CASE v.typ = "BoolValue" -> Returns(NativeInt(IF v.value.b THEN WOfInt(1) ELSE WOfInt(0)))
      [] v.typ = "Int16Value" -> Returns(NativeInt(int32(v.value.i)))
      [] v.typ = "Int32Value" -> Returns(NativeInt(v.value.i))
      [] v.typ = "LongValue" -> Returns(NativeInt(v.value.i))
      [] OTHER -> BaseValue_Convert(v, "int32")

ToUInt32(v) ==
    CASE v.typ = "UInt16Value" -> Returns(NativeInt(uint32(v.value.i)))
      [] v.typ = "UInt32Value" -> Returns(NativeInt(v.value.i))
      [] v.typ = "ULongValue" -> Returns(NativeInt(v.value.i))
      [] OTHER -> BaseValue_Convert(v, "uint32")

ToInt64(v) ==
    CASE v.typ = "BoolValue" -> Returns(NativeInt(IF v.value.b THEN WOfInt(1) ELSE WOfInt(0)))
      [] v.typ = "Int16Value" -> Returns(NativeInt(int64(v.value.i)))
      [] v.typ = "Int32Value" -> Returns(NativeInt(int64(v.value.i)))
      [] v.typ = "LongValue" -> Returns(NativeInt(int64(v.value.i)))
      [] v.typ = "Int64Value" -> Returns(NativeInt(v.value.i))
      [] OTHER -> BaseValue_Convert(v, "int64")

ToUInt64(v) ==
    CASE v.typ = "UInt16Value" -> Returns(NativeInt(uint64(v.value.i)))
      [] v.typ = "UInt32Value" -> Returns(NativeInt(uint64(v.value.i)))
      [] v.typ = "ULongValue" -> Returns(NativeInt(uint64(v.value.i)))
      [] v.typ = "UInt64Value" -> Returns(NativeInt(v.value.i))
      [] OTHER -> BaseValue_Convert(v, "uint64")

ToFloat32(v) ==
    CASE v.typ = "Float32Value" -> Returns(NativeFloat(v.value.f))
      [] OTHER -> BaseValue_Convert(v, "float32")

ToFloat64(v) ==
    CASE v.typ = "Float32Value" -> Returns(NativeFloat(float64(v.value.f)))
      [] v.typ = "Float64Value" -> Returns(NativeFloat(v.value.f))
      [] OTHER -> BaseValue_Convert(v, "float64")

\* base64.StdEncoding.EncodeToString
B64Char(i) ==
    IF i < 26 THEN 65 + i
    ELSE IF i < 52 THEN 97 + (i - 26)
    ELSE IF i < 62 THEN 48 + (i - 52)
    ELSE IF i = 62 THEN 43 ELSE 47

RECURSIVE EncodeToString(_)
EncodeToString(s) ==
    IF Len(s) = 0 THEN <<>>
    ELSE IF Len(s) = 1
         THEN <<B64Char(s[1] \div 4), B64Char((s[1] % 4) * 16), 61, 61>>
    ELSE IF Len(s) = 2
         THEN <<B64Char(s[1] \div 4), B64Char((s[1] % 4) * 16 + s[2] \div 16),
                B64Char((s[2] % 16) * 4), 61>>
    ELSE <<B64Char(s[1] \div 4), B64Char((s[1] % 4) * 16 + s[2] \div 16),
           B64Char((s[2] % 16) * 4 + s[3] \div 64), B64Char(s[3] % 64)>>
         \o EncodeToString(SubSeq(s, 4, Len(s)))

ToString(v) ==
    CASE v.typ = "NullValue" -> Returns(NativeBytes(<<110, 117, 108, 108>>))
      [] v.typ = "BoolValue" ->
           Returns(NativeBytes(IF v.value.b THEN <<116, 114, 117, 101>>
                               ELSE <<102, 97, 108, 115, 101>>))
      [] v.typ = "StringValue" -> Returns(NativeBytes(v.value.s))
      [] v.typ = "BytesValue" -> Returns(NativeBytes(EncodeToString(v.value.s)))
      [] OTHER -> BaseValue_ToString(v)

(***************************************************************************)
(* Encoding.  byte(n&0xFF), byte((n>>8)&0xFF), ... of a uint32 is le32.    *)
(***************************************************************************)
le32(n) == <<n % 256, (n \div 256) % 256, (n \div B16) % 256, (n \div (256 * B16)) % 256>>

BoolValue_ToBytes(v) ==
    <<BoolValue>> \o le32(Len(v.name)) \o v.name \o le32(1)
        \o <<IF v.value.b THEN 1 ELSE 0>>

BytesValue_ToBytes(v) ==
    <<BytesValue>> \o le32(Len(v.name)) \o v.name \o le32(Len(v.value.s))
        \o v.value.s

StringValue_ToBytes(v) ==
    <<StringValue>> \o le32(Len(v.name)) \o v.name \o le32(Len(v.value.s))
        \o v.value.s

\* an encoder that writes the length of the caller's buffer into its output
ToBinaryBytes_stamped(v) ==
    Returns(NativeBytes(<<ArrayValue>> \o le32(Len(v.name)) \o v.name
                            \o le32(4) \o le32(buf.len)))

RECURSIVE ToBytes(_)
RECURSIVE serializedElements(_)

\* the loop of ToBinaryBytes that encodes the elements; no ToBytes returns
\* an error, so the loop never takes its error return
serializedElements(elements) ==
    IF elements = <<>> THEN <<>>
    ELSE ToBytes(Head(elements)).r.s \o serializedElements(Tail(elements))

ToBinaryBytes(v) ==
    LET elementBytes == serializedElements(v.elems)
        valueSize == 4 + Len(elementBytes)
    IN  Returns(NativeBytes(
            <<ArrayValue>> \o le32(Len(v.name)) \o v.name \o le32(valueSize)
                \o le32(Len(v.elems)) \o elementBytes))

ToBytes(v) ==
    CASE v.typ = "BoolValue" -> Returns(NativeBytes(BoolValue_ToBytes(v)))
      [] v.typ = "BytesValue" -> Returns(NativeBytes(BytesValue_ToBytes(v)))
      [] v.typ = "StringValue" -> Returns(NativeBytes(StringValue_ToBytes(v)))
      [] v.typ = "ArrayValue" -> ToBinaryBytes(v)
      [] OTHER -> BaseValue_ToBytes(v)

\* BaseValue.Size, and ArrayValue.Size over the elements
RECURSIVE SizeOfAll(_)
RECURSIVE ArrayValue_Size(_)

SizeOfAll(vs) == IF vs = <<>> THEN 0 ELSE ArrayValue_Size(Head(vs)) + SizeOfAll(Tail(vs))

ArrayValue_Size(v) == IF v.typ = "ArrayValue" THEN 4 + SizeOfAll(v.elems) ELSE Len(v.data)

\* The wire format as the other implementations write it (the format
\* comments of the decoder and the Rust-generated test data): header, then
\* the payload, which for a composite is the count and the encoded children.
RECURSIVE WireFormat(_)
RECURSIVE WireFormatAll(_)

WireFormatAll(vs) ==
    IF vs = <<>> THEN <<>> ELSE WireFormat(Head(vs)) \o WireFormatAll(Tail(vs))

WireFormat(v) ==
    LET payload == IF v.kind \in {ContainerValue, ArrayValue}
                   THEN le32(Len(v.elems)) \o WireFormatAll(v.elems)
                   ELSE v.data
    IN  <<v.kind>> \o le32(Len(v.name)) \o v.name \o le32(Len(payload)) \o payload

(***************************************************************************)
(* Byte slices.                                                            *)
(***************************************************************************)
\* the slice a make([]byte, 0, n) filled by appends is: len = cap
AsSlice(bytes) == [arr |-> bytes, len |-> Len(bytes)]

\* d[i] is in range
IndexOK(d, i) == 0 <= i /\ i < d.len

\* d[lo:hi] is in range (up to the capacity)
SliceOK(d, lo, hi) == 0 <= lo /\ lo <= hi /\ hi <= Len(d.arr)

\* the bytes of d[lo:hi]
Sub(d, lo, hi) == SubSeq(d.arr, lo + 1, hi)

\* d[lo:]
From(d, lo) == [arr |-> SubSeq(d.arr, lo + 1, Len(d.arr)), len |-> d.len - lo]

\* uint32(d[o]) | uint32(d[o+1])<<8 | uint32(d[o+2])<<16 | uint32(d[o+3])<<24
readU16(d, o) == d.arr[o + 1] + 256 * d.arr[o + 2]

readU32(d, o) == <<readU16(d, o), readU16(d, o + 2), 0, 0>>

readU64(d, o) ==
    <<readU16(d, o), readU16(d, o + 2), readU16(d, o + 4), readU16(d, o + 6)>>

\* int(u) of a uint32 u.  A length of 2^30 or more is beyond every buffer of
\* the model and is represented by 2^30.
intOf(u) == IF u[2] >= 16384 THEN 2^30 ELSE u[1] + B16 * u[2]

(***************************************************************************)
(* Decoding.  A call returns [status, value, n, oob]: status "ok" (value   *)
(* and bytes read n returned with a nil error), "err" (nil value and an    *)
(* error) or "panic" (a run-time panic: index or slice bounds out of       *)
(* range); oob tells that the call read a byte at an index >= len(data),   *)
(* which a slice expression does, without a panic, up to the capacity.     *)
(***************************************************************************)
DErr == [status |-> "err", value |-> Nil, n |-> 0, oob |-> FALSE]

DPanic == [status |-> "panic", value |-> Nil, n |-> 0, oob |-> FALSE]

DOk(v, n, oob) == [status |-> "ok", value |-> v, n |-> n, oob |-> oob]

\* The part the branches of deserializeValue share: the minimum length, the
\* name, the skipped value_size and the place of the value of width bytes.
\* The branches of BoolValue, ShortValue and UShortValue check the length of
\* the name against the data (checked); those of IntValue .. DoubleValue
\* check the minimum length only.  Returns [status, name, at, n, oob], at
\* the offset of the value and n the offset behind it.
readFixed(d, minLen, width, checked) ==
    LET nameLen == intOf(readU32(d, 1))
        offset == 5
        none == [status |-> "err", name |-> <<>>, at |-> 0, n |-> 0, oob |-> FALSE]
        read == [status |-> "ok", name |-> Sub(d, offset, offset + nameLen),
                 at |-> offset + nameLen + 4, n |-> offset + nameLen + 4 + width,
                 oob |-> offset + nameLen > d.len]
    IN  IF d.len < minLen THEN none
        ELSE IF checked
             THEN IF offset + nameLen + 4 + width > d.len THEN none ELSE read
        ELSE IF ~SliceOK(d, offset, offset + nameLen)
             THEN [none EXCEPT !.status = "panic"]
        ELSE IF ~IndexOK(d, offset + nameLen + 4 + width - 1)
             THEN [none EXCEPT !.status = "panic"]
        ELSE read

\* The part the branches of BytesValue and StringValue share: the minimum
\* length is checked, the name and the value of value_size bytes are read.
\* Returns [status, name, value, n, oob].
readSized(d) ==
    LET nameLen == intOf(readU32(d, 1))
        offset == 5
        valueSize == intOf(readU32(d, offset + nameLen))
        from == offset + nameLen + 4
        none == [status |-> "err", name |-> <<>>, value |-> <<>>, n |-> 0,
                 oob |-> FALSE]
    IN  IF d.len < 13 THEN none
        ELSE IF ~SliceOK(d, offset, offset + nameLen)
             THEN [none EXCEPT !.status = "panic"]
        ELSE IF ~IndexOK(d, offset + nameLen + 3)
             THEN [none EXCEPT !.status = "panic"]
        ELSE IF ~SliceOK(d, from, from + valueSize)
             THEN [none EXCEPT !.status = "panic"]
        ELSE [status |-> "ok", name |-> Sub(d, offset, offset + nameLen),
              value |-> Sub(d, from, from + valueSize), n |-> from + valueSize,
              oob |-> offset + nameLen > d.len \/ from + valueSize > d.len]

\* a failing branch that hands out a value with what was read of the name
Failed_partial(h) ==
    [status |-> "err", value |-> NewNullValue(h.name), n |-> 0, oob |-> FALSE]

\* what a branch returns when the shared part did not read a value
Failed(h) == IF h.status = "panic" THEN DPanic ELSE DErr

\* an unknown tag decoded as a Null value
deserializeDefault_null(typeID) == DOk(NewNullValue(<<>>), 1, FALSE)

\* default: of the switch on the type tag
deserializeDefault(typeID) == DErr

deserializeValue(d) ==
    IF d.len < 1 THEN DErr
    ELSE LET typeID == d.arr[1]
             b == readFixed(d, 10, 1, TRUE)
             s == readFixed(d, 11, 2, TRUE)
             i == readFixed(d, 13, 4, FALSE)
             l == readFixed(d, 17, 8, FALSE)
             z == readSized(d)
         IN  CASE typeID = BoolValue ->
                    IF b.status # "ok" THEN Failed(b)
                    ELSE DOk(NewBoolValue(b.name, d.arr[b.at + 1] # 0), b.n, b.oob)
               [] typeID = ShortValue ->
                    IF s.status # "ok" THEN Failed(s)
                    ELSE DOk(NewInt16Value(s.name, int16(<<readU16(d, s.at), 0, 0, 0>>)),
                             s.n, s.oob)
               [] typeID = UShortValue ->
                    IF s.status # "ok" THEN Failed(s)
                    ELSE DOk(NewUInt16Value(s.name, <<readU16(d, s.at), 0, 0, 0>>),
                             s.n, s.oob)
               [] typeID = IntValue ->
                    IF i.status # "ok" THEN Failed(i)
                    ELSE DOk(NewInt32Value(i.name, int32(readU32(d, i.at))), i.n, i.oob)
               [] typeID = UIntValue ->
                    IF i.status # "ok" THEN Failed(i)
                    ELSE DOk(NewUInt32Value(i.name, readU32(d, i.at)), i.n, i.oob)
               [] typeID = LLongValue ->
                    IF l.status # "ok" THEN Failed(l)
                    ELSE DOk(NewInt64Value(l.name, int64(readU64(d, l.at))), l.n, l.oob)
               [] typeID = ULLongValue ->
                    IF l.status # "ok" THEN Failed(l)
                    ELSE DOk(NewUInt64Value(l.name, readU64(d, l.at)), l.n, l.oob)
               [] typeID = FloatValue ->
                    IF i.status # "ok" THEN Failed(i)
                    ELSE DOk(NewFloat32Value(i.name, Float32frombits(readU32(d, i.at))),
                             i.n, i.oob)
               [] typeID = DoubleValue ->
                    IF l.status # "ok" THEN Failed(l)
                    ELSE DOk(NewFloat64Value(l.name, Float64frombits(readU64(d, l.at))),
                             l.n, l.oob)
               [] typeID = BytesValue ->
                    IF z.status # "ok" THEN Failed(z)
                    ELSE DOk(NewBytesValue(z.name, z.value), z.n, z.oob)
               [] typeID = StringValue ->
                    IF z.status # "ok" THEN Failed(z)
                    ELSE DOk(NewStringValue(z.name, z.value), z.n, z.oob)
               [] OTHER -> deserializeDefault(typeID)

\* the element loop of DeserializeArrayValue, from element i at offset
RECURSIVE deserializeElements(_, _, _, _, _, _)
deserializeElements(d, offset, i, count, elements, oob) ==
    IF i >= count THEN DOk(elements, offset, oob)
    ELSE IF offset >= d.len THEN DErr
    ELSE LET r == deserializeValue(From(d, offset))
         IN  IF r.status # "ok" THEN [r EXCEPT !.oob = oob \/ r.oob]
             ELSE deserializeElements(d, offset + r.n, i + 1, count,
                                      Append(elements, r.value), oob \/ r.oob)

DeserializeArrayValue(d) ==
    IF d.len < 13 THEN DErr
    ELSE IF d.arr[1] # ArrayValue THEN DErr
    ELSE LET nameLen == intOf(readU32(d, 1))
             offset == 5
         IN  IF offset + nameLen > d.len THEN DErr
             ELSE IF offset + nameLen + 4 > d.len THEN DErr
             ELSE IF offset + nameLen + 4 + 4 > d.len THEN DErr
             ELSE LET count == intOf(readU32(d, offset + nameLen + 4))
                      r == deserializeElements(d, offset + nameLen + 8, 0, count,
                                               <<>>, FALSE)
                  IN  IF r.status # "ok" THEN r
                      ELSE DOk(NewArrayValue(Sub(d, offset, offset + nameLen), r.value),
                               r.n, r.oob)

(***************************************************************************)
(* Inputs.                                                                 *)
(***************************************************************************)
\* the name "a", "ab", "abc", ... of length n
Name(n) == [i \in 1..n |-> 96 + i]

Names == {Name(n) : n \in 0..MaxNameLen}

\* -2^63, -2^31 - 1, -2^31, -1, 0, 2^31 - 1, 2^31, 2^63 - 1
Int64Inputs ==
    {<<0, 0, 0, -32768>>, <<B16 - 1, 32767, B16 - 1, -1>>, int32Min, WOfInt(-1),
     WZero, int32Max, <<0, 32768, 0, 0>>, <<B16 - 1, B16 - 1, B16 - 1, 32767>>}

\* 0, 1, 2^32 - 1, 2^32, 2^64 - 1
UInt64Inputs ==
    {WZero, WOfInt(1), uint32Max, <<0, 0, 1, 0>>,
     <<B16 - 1, B16 - 1, B16 - 1, B16 - 1>>}

\* The scalar values, each built by its constructor: of every name, every
\* kind with its least and greatest value and zero,
\*   float32: 0, 1.5, the smallest denormal, -MaxFloat32
\*   float64: 0, 1.5, -MaxFloat64, 0.1 (which no float32 holds)
\*   bytes and strings: empty, one byte, three bytes
\* and the Long and ULong values of the inputs their constructors accept.
ScalarInputs ==
    LET Int16s == {WOfInt(-32768), WOfInt(-1), WZero, WOfInt(32767)}
        UInt16s == {WZero, WOfInt(1), WOfInt(B16 - 1)}
        Int32s == {int32Min, WOfInt(-1), WZero, WOfInt(30), int32Max}
        UInt32s == {WZero, WOfInt(1), uint32Max}
        Float32s == {FZero,
                     [neg |-> 0, exp |-> 0, man |-> 2^22, low |-> 0],
                     [neg |-> 0, exp |-> -127, man |-> 1, low |-> 0],
                     [neg |-> 1, exp |-> 127, man |-> 2^23 - 1, low |-> 0]}
        Float64s == {[neg |-> 0, exp |-> -1023, man |-> 0, low |-> 0],
                     [neg |-> 0, exp |-> 0, man |-> 2^22, low |-> 0],
                     [neg |-> 1, exp |-> 1023, man |-> 2^23 - 1, low |-> 2^29 - 1],
                     [neg |-> 0, exp |-> -4, man |-> 5033164, low |-> 429496730]}
        Blobs == {<<>>, <<0>>, <<255, 0, 222>>}
        Strings == {<<>>, <<120>>, <<120, 121, 122>>}
        Named(name) ==
            {NewBoolValue(name, x) : x \in BOOLEAN}
                \cup {NewInt16Value(name, x) : x \in Int16s}
                \cup {NewUInt16Value(name, x) : x \in UInt16s}
                \cup {NewInt32Value(name, x) : x \in Int32s}
                \cup {NewUInt32Value(name, x) : x \in UInt32s}
                \cup {NewLongValue(name, x).v :
                         x \in {y \in Int64Inputs : NewLongValue(name, y).err = ""}}
                \cup {NewULongValue(name, x).v :
                         x \in {y \in UInt64Inputs : NewULongValue(name, y).err = ""}}
                \cup {NewInt64Value(name, x) : x \in Int64Inputs}
                \cup {NewUInt64Value(name, x) : x \in UInt64Inputs}
                \cup {NewFloat32Value(name, x) : x \in Float32s}
                \cup {NewFloat64Value(name, x) : x \in Float64s}
                \cup {NewBytesValue(name, x) : x \in Blobs}
                \cup {NewStringValue(name, x) : x \in Strings}
    IN  UNION {Named(name) : name \in Names}

\* Array("tags", [String("", "x"), String("", "y")])
Tags ==
    NewArrayValue(<<116, 97, 103, 115>>,
                  <<NewStringValue(<<>>, <<120>>), NewStringValue(<<>>, <<121>>)>>)

\* Container("user", [String("name", "Alice"), Int32("age", 30), Tags])
User ==
    NewContainerValue(<<117, 115, 101, 114>>,
        <<NewStringValue(<<110, 97, 109, 101>>, <<65, 108, 105, 99, 101>>),
          NewInt32Value(<<97, 103, 101>>, WOfInt(30)),
          Tags>>)

\* composites nested to depth 4: a container of a container of User
Nested == NewContainerValue(Name(1), <<NewContainerValue(Name(1), <<User>>)>>)

\* what is appended to an array: Int32 and String elements, anonymous and
\* named, and an array
ElementInputs ==
    {NewInt32Value(<<>>, WOfInt(1)), NewInt32Value(Name(MaxNameLen), int32Max),
     NewStringValue(<<>>, <<120>>), NewStringValue(Name(1), <<120, 121, 122>>),
     Tags}

\* the names of the arrays: the empty name and "a"
ArrayNames == {Name(0), Name(1)}

\* what is added to a container
ChildInputs ==
    {NewStringValue(Name(1), <<120, 121, 122>>), NewInt32Value(Name(MaxNameLen), WOfInt(30)),
     Tags, Nested}

IsComposite(v) == v.kind \in {ContainerValue, ArrayValue}

(***************************************************************************)
(* The codec: a value is built, encoded (by ToBytes, or by a peer in the   *)
(* wire format), possibly damaged on the way, and decoded.                 *)
(***************************************************************************)
NoResult == [fn |-> "none", status |-> "none", value |-> Nil, n |-> 0, oob |-> FALSE]

ResultOf(fn, r) ==
    [fn |-> fn, status |-> r.status, value |-> r.value, n |-> r.n, oob |-> r.oob]

\* ArrayValue.Append / Push / PushBack
ArrayValue_Append(v, element) == [v EXCEPT !.elems = Append(@, element)]

\* ContainerValue.AddChild, on the children
AddChild(kids, child) == Append(kids, child)

ContainerValue_AddChild(v, child) == [v EXCEPT !.elems = AddChild(@, child)]

InitCodec ==
    /\ pc = "build"
    /\ val = Nil
    /\ buf = AsSlice(<<>>)
    /\ org = "none"
    /\ res = NoResult

NewScalar(v) ==
    /\ pc = "build" /\ val = Nil
    /\ val' = v
    /\ UNCHANGED <<pc, buf, org, res, valueVars, lookupVars, laterVars>>

NewArray(name) ==
    /\ pc = "build" /\ val = Nil
    /\ val' = NewArrayValue(name, <<>>)
    /\ UNCHANGED <<pc, buf, org, res, valueVars, lookupVars, laterVars>>

PushBack(element) ==
    /\ pc = "build" /\ val.typ = "ArrayValue"
    /\ Len(val.elems) < MaxElems
    /\ val' = ArrayValue_Append(val, element)
    /\ UNCHANGED <<pc, buf, org, res, valueVars, lookupVars, laterVars>>

NewContainer(name) ==
    /\ pc = "build" /\ val = Nil
    /\ val' = NewContainerValue(name, <<>>)
    /\ UNCHANGED <<pc, buf, org, res, valueVars, lookupVars, laterVars>>

\* the example of the documentation, built in one constructor call
NewUser ==
    /\ pc = "build" /\ val = Nil
    /\ val' = User
    /\ UNCHANGED <<pc, buf, org, res, valueVars, lookupVars, laterVars>>

BuildChild(child) ==
    /\ pc = "build" /\ val.typ = "ContainerValue" /\ val # User
    /\ Len(val.elems) < MaxElems
    /\ val' = ContainerValue_AddChild(val, child)
    /\ UNCHANGED <<pc, buf, org, res, valueVars, lookupVars, laterVars>>

\* data, err := v.ToBytes()
Encode ==
    /\ pc = "build" /\ val # Nil
    /\ ToBytes(val).err = ""
    /\ buf' = AsSlice(ToBytes(val).r.s)
    /\ org' = "ToBytes"
    /\ pc' = "encoded"
    /\ UNCHANGED <<val, res, valueVars, lookupVars, laterVars>>

\* the same value is encoded once more: data, err = v.ToBytes()
EncodeAgain ==
    /\ pc = "encoded" /\ org = "ToBytes"
    /\ ToBytes(val).err = ""
    /\ buf' = AsSlice(ToBytes(val).r.s)
    /\ UNCHANGED <<pc, val, org, res, valueVars, lookupVars, laterVars>>

\* a peer (the C++ or the Rust implementation) sends val in the wire format
Receive ==
    /\ pc = "build" /\ val # Nil
    /\ buf' = AsSlice(WireFormat(val))
    /\ org' = "peer"
    /\ pc' = "encoded"
    /\ UNCHANGED <<val, res, valueVars, lookupVars, laterVars>>

\* the proper prefix b[0:k], as the slice expression b[:k] (keep: the
\* capacity stays that of b) or as a copy of its k bytes
Truncate(k, keep) ==
    /\ pc = "encoded" /\ org = "peer"
    /\ val.typ # "ContainerValue"
    /\ k < buf.len
    /\ buf' = [arr |-> IF keep THEN buf.arr ELSE SubSeq(buf.arr, 1, k), len |-> k]
    /\ org' = "prefix"
    /\ UNCHANGED <<pc, val, res, valueVars, lookupVars, laterVars>>

\* the kind tag is replaced by a byte that is no kind
SetTag(tag) ==
    /\ pc = "encoded" /\ org = "peer"
    /\ val.name = <<>> /\ val.elems = <<>>
    /\ buf' = [buf EXCEPT !.arr[1] = tag]
    /\ org' = "tag"
    /\ UNCHANGED <<pc, val, res, valueVars, lookupVars, laterVars>>

\* the payload_len field is replaced by a length that is one less, or one
\* more, than the length of the payload that follows
SetPayloadLen(delta) ==
    /\ pc = "encoded" /\ org = "peer"
    /\ val.typ # "ContainerValue"
    /\ LET field == 1 + 4 + Len(val.name)
           declared == intOf(readU32(buf, field)) + delta
       IN  /\ declared >= 0
           /\ buf' = [buf EXCEPT !.arr = [i \in 1..Len(buf.arr) |->
                                            IF i \in field + 1 .. field + 4
                                            THEN le32(declared)[i - field]
                                            ELSE buf.arr[i]]]
    /\ org' = "payload_len"
    /\ UNCHANGED <<pc, val, res, valueVars, lookupVars, laterVars>>

\* the offset of the element_count field of an encoded array
CountOffset(v) == 1 + 4 + Len(v.name) + 4

\* the number of elements of v that b[0:k] holds whole
RECURSIVE WholeElements(_, _)
WholeElements(elements, room) ==
    IF elements = <<>> \/ Len(WireFormat(Head(elements))) > room THEN 0
    ELSE 1 + WholeElements(Tail(elements), room - Len(WireFormat(Head(elements))))

\* an encoded array is cut to k bytes (header and count included) and its
\* element_count declares more elements than those bytes hold whole
OverCount(k, count) ==
    /\ pc = "encoded" /\ org = "peer"
    /\ val.typ = "ArrayValue"
    /\ CountOffset(val) + 4 <= k /\ k <= buf.len
    /\ count > WholeElements(val.elems, k - (CountOffset(val) + 4))
    /\ LET counted == [i \in 1..Len(buf.arr) |->
                          IF i \in CountOffset(val) + 1 .. CountOffset(val) + 4
                          THEN le32(count)[i - CountOffset(val)]
                          ELSE buf.arr[i]]
       IN  buf' = AsSlice(SubSeq(counted, 1, k))
    /\ org' = "count"
    /\ UNCHANGED <<pc, val, res, valueVars, lookupVars, laterVars>>

Decode ==
    /\ pc = "encoded"
    /\ res' = ResultOf("deserializeValue", deserializeValue(buf))
    /\ pc' = "decoded"
    /\ UNCHANGED <<val, buf, org, valueVars, lookupVars, laterVars>>

DecodeArray ==
    /\ pc = "encoded"
    /\ res' = ResultOf("DeserializeArrayValue", DeserializeArrayValue(buf))
    /\ pc' = "decoded"
    /\ UNCHANGED <<val, buf, org, valueVars, lookupVars, laterVars>>

BadTags == 16..255

NextCodec ==
    \/ \E v \in ScalarInputs : NewScalar(v)
    \/ \E name \in ArrayNames : NewArray(name)
    \/ \E element \in ElementInputs : PushBack(element)
    \/ \E name \in Names : NewContainer(name)
    \/ NewUser
    \/ \E child \in ChildInputs : BuildChild(child)
    \/ Encode
    \/ EncodeAgain
    \/ Receive
    \/ \E k \in 0..buf.len, keep \in BOOLEAN : Truncate(k, keep)
    \/ \E tag \in BadTags : SetTag(tag)
    \/ \E k \in 0..buf.len, count \in 1..MaxElems + 1 : OverCount(k, count)
    \/ \E delta \in {-1, 1} : SetPayloadLen(delta)
    \/ Decode
    \/ DecodeArray

(***************************************************************************)
(* Lookup by name and index, and the add and remove operations, of         *)
(* ContainerValue (children) and of ValueContainer (units).                *)
(***************************************************************************)
\* a lookup that returns the first match whatever the index
lookup_first(values, name, index, count) ==
    IF \E i \in 1..Len(values) : values[i].name = name
    THEN values[CHOOSE i \in 1..Len(values) :
                  /\ values[i].name = name
                  /\ \A j \in 1..i - 1 : values[j].name # name]
    ELSE NewBaseValue(<<>>, NullValue, <<>>)

\* the loop of GetChild and of GetValue, with count matches seen so far
RECURSIVE lookup(_, _, _, _)
lookup(values, name, index, count) ==
    IF values = <<>> THEN NewBaseValue(<<>>, NullValue, <<>>)
    ELSE IF Head(values).name = name
         THEN IF count = index THEN Head(values)
              ELSE lookup(Tail(values), name, index, count + 1)
         ELSE lookup(Tail(values), name, index, count)

GetChild(kids, name, index) == lookup(kids, name, index, 0)

GetValue(us, name, index) == lookup(us, name, index, 0)

\* a removal that stops at the first match
remove_first(values, name) ==
    IF \E i \in 1..Len(values) : values[i].name = name
    THEN LET i == CHOOSE k \in 1..Len(values) :
                     /\ values[k].name = name
                     /\ \A j \in 1..k - 1 : values[j].name # name
         IN  SubSeq(values, 1, i - 1) \o SubSeq(values, i + 1, Len(values))
    ELSE values

\* the loop of RemoveChild and of RemoveValue
RECURSIVE remove(_, _)
remove(values, name) ==
    IF values = <<>> THEN <<>>
    ELSE IF Head(values).name # name THEN <<Head(values)>> \o remove(Tail(values), name)
    ELSE remove(Tail(values), name)

RemoveChild(kids, name) == remove(kids, name)

\* ContainerValue.Children and ContainerValue.ChildCount, on the children
Children(kids) == kids

ChildCount(kids) == Len(kids)

RemoveValue(us, name) == remove(us, name)

\* ValueContainer.AddValue, on the units
AddValue(us, value) == Append(us, value)

NoLookup == [fn |-> "none", name |-> <<>>, index |-> 0, r |-> Nil]

\* what is added to a ContainerValue: two children of one name, one of another
KidInputs ==
    {NewInt32Value(Name(1), WOfInt(1)), NewInt32Value(Name(1), WOfInt(30)),
     NewStringValue(Name(MaxNameLen), <<120>>)}

\* what is added to a ValueContainer
UnitInputs == {NewBoolValue(Name(1), TRUE), NewStringValue(Name(1), <<120>>)}

Indexes == -1..MaxChildren

InitLookup ==
    /\ children = <<>>
    /\ units = <<>>
    /\ got = NoLookup
    /\ kept = [kids |-> <<>>, us |-> <<>>]

DoAddChild(child) ==
    /\ Len(children) < MaxChildren
    /\ children' = AddChild(children, child)
    /\ got' = NoLookup
    /\ kept' = [kept EXCEPT !.kids = @ \o <<child>>]
    /\ UNCHANGED <<units, codecVars, valueVars, laterVars>>

DoRemoveChild(name) ==
    /\ children' = RemoveChild(children, name)
    /\ got' = NoLookup
    /\ kept' = [kept EXCEPT !.kids = SelectSeq(@, LAMBDA c : c.name # name)]
    /\ UNCHANGED <<units, codecVars, valueVars, laterVars>>

\* (a lookup changes neither collection: a second lookup in a row would
\* reach nothing that the first does not)
DoGetChild(name, index) ==
    /\ got = NoLookup
    /\ got' = [fn |-> "GetChild", name |-> name, index |-> index,
               r |-> GetChild(children, name, index)]
    /\ UNCHANGED <<children, units, kept, codecVars, valueVars, laterVars>>

DoAddValue(value) ==
    /\ Len(units) < MaxElems
    /\ units' = AddValue(units, value)
    /\ got' = NoLookup
    /\ kept' = [kept EXCEPT !.us = @ \o <<value>>]
    /\ UNCHANGED <<children, codecVars, valueVars, laterVars>>

DoRemoveValue(name) ==
    /\ units' = RemoveValue(units, name)
    /\ got' = NoLookup
    /\ kept' = [kept EXCEPT !.us = SelectSeq(@, LAMBDA c : c.name # name)]
    /\ UNCHANGED <<children, codecVars, valueVars, laterVars>>

DoGetValue(name, index) ==
    /\ got = NoLookup
    /\ got' = [fn |-> "GetValue", name |-> name, index |-> index,
               r |-> GetValue(units, name, index)]
    /\ UNCHANGED <<children, units, kept, codecVars, valueVars, laterVars>>

NextLookup ==
    \/ \E child \in KidInputs : DoAddChild(child)
    \/ \E name \in Names : DoRemoveChild(name)
    \/ \E name \in Names, index \in Indexes : DoGetChild(name, index)
    \/ \E value \in UnitInputs : DoAddValue(value)
    \/ \E name \in Names : DoRemoveValue(name)
    \/ \E name \in Names, index \in Indexes : DoGetValue(name, index)

(***************************************************************************)
(* Constructors and conversions: a value is constructed (or comes back     *)
(* from a lookup that found nothing) and a conversion is requested on it.  *)
(***************************************************************************)
Conversions ==
    {"ToBool", "ToInt16", "ToUInt16", "ToInt32", "ToUInt32", "ToInt64",
     "ToUInt64", "ToFloat32", "ToFloat64", "ToString", "ToBytes"}

Convert(v, to) ==
    CASE to = "ToBool" -> ToBool(v)
      [] to = "ToInt16" -> ToInt16(v)
      [] to = "ToUInt16" -> ToUInt16(v)
      [] to = "ToInt32" -> ToInt32(v)
      [] to = "ToUInt32" -> ToUInt32(v)
      [] to = "ToInt64" -> ToInt64(v)
      [] to = "ToUInt64" -> ToUInt64(v)
      [] to = "ToFloat32" -> ToFloat32(v)
      [] to = "ToFloat64" -> ToFloat64(v)
      [] to = "ToString" -> ToString(v)
      [] to = "ToBytes" -> ToBytes(v)

NotMade == [fn |-> "none", arg |-> WZero, v |-> Nil, err |-> ""]

NoConversion == [to |-> "none", r |-> NoNative, err |-> ""]

InitValue ==
    /\ made = NotMade
    /\ conv = NoConversion

\* a constructor that cannot fail
Construct(v) ==
    /\ made = NotMade
    /\ made' = [fn |-> "New" \o v.typ, arg |-> v.value.i, v |-> v, err |-> ""]
    /\ UNCHANGED <<conv, codecVars, lookupVars, laterVars>>

ConstructNull(name) ==
    /\ made = NotMade
    /\ made' = [fn |-> "NewNullValue", arg |-> WZero, v |-> NewNullValue(name), err |-> ""]
    /\ UNCHANGED <<conv, codecVars, lookupVars, laterVars>>

ConstructLong(name, value) ==
    /\ made = NotMade
    /\ LET r == NewLongValue(name, value)
       IN  made' = [fn |-> "NewLongValue", arg |-> value, v |-> r.v, err |-> r.err]
    /\ UNCHANGED <<conv, codecVars, lookupVars, laterVars>>

ConstructULong(name, value) ==
    /\ made = NotMade
    /\ LET r == NewULongValue(name, value)
       IN  made' = [fn |-> "NewULongValue", arg |-> value, v |-> r.v, err |-> r.err]
    /\ UNCHANGED <<conv, codecVars, lookupVars, laterVars>>

\* a lookup that finds nothing hands out the placeholder
LookupMiss(name, index) ==
    /\ made = NotMade
    /\ made' = [fn |-> "GetChild", arg |-> WZero, v |-> GetChild(<<>>, name, index),
                err |-> ""]
    /\ UNCHANGED <<conv, codecVars, lookupVars, laterVars>>

Request(to) ==
    /\ made.v # Nil
    /\ conv = NoConversion
    /\ LET r == Convert(made.v, to)
       IN  conv' = [to |-> to, r |-> r.r, err |-> r.err]
    /\ UNCHANGED <<made, codecVars, lookupVars, laterVars>>

NextValue ==
    \/ \E v \in ScalarInputs : Construct(v)
    \/ \E name \in Names : ConstructNull(name)
    \/ \E name \in Names, value \in Int64Inputs : ConstructLong(name, value)
    \/ \E name \in Names, value \in UInt64Inputs : ConstructULong(name, value)
    \/ \E name \in Names, index \in Indexes : LookupMiss(name, index)
    \/ \E to \in Conversions : Request(to)

(***************************************************************************)
(* Specifications.                                                         *)
(***************************************************************************)
(***************************************************************************)
(* An ArrayValue: its constructor, Append (Push and PushBack call Append), *)
(* Clear and At.                                                            *)
(***************************************************************************)
\* ArrayValue.Count and ArrayValue.IsEmpty
ArrayValue_Count(v) == Len(v.elems)

ArrayValue_IsEmpty(v) == Len(v.elems) = 0

\* an At that takes the index modulo the size
ArrayValue_At_wrapping(v, index) ==
    IF Len(v.elems) = 0 THEN [v |-> Nil, err |-> "out of range"]
    ELSE [v |-> v.elems[(index % Len(v.elems)) + 1], err |-> ""]

\* ArrayValue.At: [v, err]
ArrayValue_At(v, index) ==
    IF index < 0 \/ index >= Len(v.elems)
    THEN [v |-> Nil, err |-> "ArrayValue index out of range"]
    ELSE [v |-> v.elems[index + 1], err |-> ""]

ArrayValue_Clear(v) == [v EXCEPT !.elems = <<>>]

NoAt == [index |-> 0, v |-> Nil, err |-> "none"]

\* what the constructor is given: nothing, one element, two elements
ConstructorInputs ==
    {<<>>, <<NewInt32Value(<<>>, WOfInt(1))>>,
     <<NewStringValue(<<>>, <<120>>), NewInt32Value(<<>>, WOfInt(1))>>}

InitArray ==
    /\ array = Nil
    /\ appended = <<>>
    /\ at = NoAt

ArrayNew(name, elements) ==
    /\ array = Nil
    /\ array' = NewArrayValue(name, elements)
    /\ appended' = elements
    /\ UNCHANGED <<at, arrayRest>>

ArrayAppend(element) ==
    /\ array # Nil
    /\ Len(array.elems) < MaxElems
    /\ array' = ArrayValue_Append(array, element)
    /\ appended' = appended \o <<element>>
    /\ at' = NoAt
    /\ UNCHANGED <<arrayRest>>

ArrayClear ==
    /\ array # Nil
    /\ array' = ArrayValue_Clear(array)
    /\ appended' = <<>>
    /\ at' = NoAt
    /\ UNCHANGED <<arrayRest>>

ArrayAt(index) ==
    /\ array # Nil
    /\ at = NoAt
    /\ at' = [index |-> index, v |-> ArrayValue_At(array, index).v,
              err |-> ArrayValue_At(array, index).err]
    /\ UNCHANGED <<array, appended, arrayRest>>

NextArray ==
    \/ \E elements \in ConstructorInputs : ArrayNew(Name(1), elements)
    \/ \E element \in ElementInputs : ArrayAppend(element)
    \/ ArrayClear
    \/ \E index \in -1..MaxElems : ArrayAt(index)

(***************************************************************************)
(* Goroutines that call the methods of one shared ValueContainer. A call   *)
(* is made, enters the method (taking the lock the method takes, and       *)
(* reading the units where it reads them first) and leaves it (storing the *)
(* units where it stores them, and running the deferred unlock).           *)
(***************************************************************************)
Goroutines == 1..MaxGoroutines

\* sync.RWMutex: no writer and no readers
Unlocked == [writer |-> 0, readers |-> {}]

\* a mutex that lets everyone in
Acquire_free(m, g, how) == [ok |-> TRUE, m |-> m]

\* Lock and RLock as g calls them: whether the call goes through, and the
\* mutex after it ("none": the method takes no lock)
Acquire(m, g, how) ==
    CASE how = "Lock" ->
           [ok |-> m.writer = 0 /\ m.readers = {}, m |-> [m EXCEPT !.writer = g]]
      [] how = "RLock" ->
           [ok |-> m.writer = 0, m |-> [m EXCEPT !.readers = @ \cup {g}]]
      [] OTHER -> [ok |-> TRUE, m |-> m]

\* Unlock and RUnlock
Release(m, g, how) ==
    CASE how = "Lock" -> [m EXCEPT !.writer = 0]
      [] how = "RLock" -> [m EXCEPT !.readers = @ \ {g}]
      [] OTHER -> m

ContainerOps ==
    {"SetSource", "SwapHeader", "Values", "AddValue", "RemoveValue", "GetValue",
     "GetValues", "ClearValues", "Copy", "Serialize"}

\* per method of ValueContainer: the lock it takes in thread-safe mode, and
\* what it does to the units and to the header fields ("w": writes, "r":
\* only reads, "-": neither)
Access(op) ==
    CASE op = "SetSource" -> [lock |-> "Lock", units |-> "-", header |-> "w"]
      [] op = "SwapHeader" -> [lock |-> "none", units |-> "-", header |-> "w"]
      [] op = "Values" -> [lock |-> "none", units |-> "r", header |-> "-"]
      [] op = "AddValue" -> [lock |-> "Lock", units |-> "w", header |-> "-"]
      [] op = "RemoveValue" -> [lock |-> "Lock", units |-> "w", header |-> "-"]
      [] op = "GetValue" -> [lock |-> "RLock", units |-> "r", header |-> "-"]
      [] op = "GetValues" -> [lock |-> "none", units |-> "r", header |-> "-"]
      [] op = "ClearValues" -> [lock |-> "none", units |-> "w", header |-> "-"]
      [] op = "Copy" -> [lock |-> "none", units |-> "r", header |-> "r"]
      [] op = "Serialize" -> [lock |-> "none", units |-> "r", header |-> "r"]

\* the units a method stores: AddValue and RemoveValue from the units they
\* read, ClearValues a new empty slice, the others nothing
UnitsAfter(op, local, arg, current) ==
    CASE op = "AddValue" -> AddValue(local, arg)
      [] op = "RemoveValue" -> RemoveValue(local, arg.name)
      [] op = "ClearValues" -> <<>>
      [] OTHER -> current

Idle == [op |-> "none", pc |-> "idle", how |-> "none",
         arg |-> [name |-> <<>>, id |-> 0], local |-> <<>>]

InitShared ==
    /\ threadSafe = FALSE
    /\ mu = Unlocked
    /\ cunits = <<>>
    /\ running = [g \in Goroutines |-> Idle]
    /\ calls = 0
    /\ onlyAdds = TRUE

\* EnableThreadSafe, before the container is shared
EnableThreadSafe ==
    /\ calls = 0 /\ ~threadSafe
    /\ threadSafe' = TRUE
    /\ UNCHANGED <<mu, cunits, running, calls, onlyAdds, sharedRest>>

\* goroutine g calls a method; an AddValue call passes a value of its own
Call(g, op) ==
    /\ running[g] = Idle
    /\ calls < MaxCalls
    /\ running' = [running EXCEPT ![g] =
          [op |-> op, pc |-> "called",
           how |-> IF threadSafe THEN Access(op).lock ELSE "none",
           arg |-> [name |-> Name(1), id |-> IF op = "AddValue" THEN calls + 1 ELSE 0],
           local |-> <<>>]]
    /\ calls' = calls + 1
    /\ onlyAdds' = (onlyAdds /\ op = "AddValue")
    /\ UNCHANGED <<threadSafe, mu, cunits, sharedRest>>

\* g gets past the lock of the method and reads the units
Enter(g) ==
    /\ running[g].pc = "called"
    /\ Acquire(mu, g, running[g].how).ok
    /\ mu' = Acquire(mu, g, running[g].how).m
    /\ running' = [running EXCEPT ![g].pc = "in",
                                  ![g].local = IF running[g].op \in {"AddValue", "RemoveValue"}
                                               THEN cunits ELSE <<>>]
    /\ UNCHANGED <<threadSafe, cunits, calls, onlyAdds, sharedRest>>

\* g stores the units and returns
Leave(g) ==
    /\ running[g].pc = "in"
    /\ cunits' = UnitsAfter(running[g].op, running[g].local, running[g].arg, cunits)
    /\ mu' = Release(mu, g, running[g].how)
    /\ running' = [running EXCEPT ![g] = Idle]
    /\ UNCHANGED <<threadSafe, calls, onlyAdds, sharedRest>>

NextShared ==
    \/ EnableThreadSafe
    \/ \E g \in Goroutines, op \in ContainerOps : Call(g, op)
    \/ \E g \in Goroutines : Enter(g)
    \/ \E g \in Goroutines : Leave(g)

(***************************************************************************)
(* A ValueStore and the workers (goroutines) that call its methods: a      *)
(* worker enters a method, past the lock the method takes, and leaves it,  *)
(* having done what the method does, through the deferred unlock.          *)
(***************************************************************************)
Workers == {1, 2}

StoreKeys == {Name(1), Name(2)}

\* the values stored, by number; 0 is the nil Value
StoreValues == {1, 2}

StoreOps ==
    {"Add", "Get", "Contains", "Remove", "Clear", "Size", "Empty", "Keys",
     "Values", "Range", "Serialize", "ToJSON", "SerializeBinary", "ResetStatistics"}

\* every method under the read lock
StoreAccess_shared(op) ==
    [lock |-> "RLock", values |-> IF op \in {"Add", "Remove", "Clear"} THEN "w" ELSE "r"]

\* per method of ValueStore: the lock it takes when thread safety is
\* enabled, and what it does to the map
StoreAccess(op) ==
    CASE op \in {"Add", "Remove", "Clear"} -> [lock |-> "Lock", values |-> "w"]
      [] op \in {"Get", "Contains", "Size", "Empty", "Keys", "Values", "Range",
                 "Serialize", "ToJSON", "SerializeBinary"} ->
           [lock |-> "RLock", values |-> "r"]
      [] op = "ResetStatistics" -> [lock |-> "none", values |-> "-"]

NoReturn == [v |-> 0, b |-> FALSE, n |-> 0]

\* an Add that counts no write
StoreAfter_uncounted(op, s, key, value) ==
    [s |-> IF op = "Add"
           THEN [s EXCEPT !.values = [k \in DOMAIN s.values \cup {key} |->
                                         IF k = key THEN value ELSE s.values[k]]]
           ELSE s,
     ret |-> NoReturn]

\* a Remove that reports what it found and deletes nothing
StoreAfter_keeping(op, s, key, value) ==
    [s |-> IF op = "Add"
           THEN [s EXCEPT !.values = [k \in DOMAIN s.values \cup {key} |->
                                         IF k = key THEN value ELSE s.values[k]],
                          !.writeCount = @ + 1]
           ELSE s,
     ret |-> [NoReturn EXCEPT !.b = key \in DOMAIN s.values,
                              !.n = Cardinality(DOMAIN s.values),
                              !.v = IF key \in DOMAIN s.values THEN s.values[key] ELSE 0]]

\* what a method does to the store s, and what it returns (the counters
\* are uint64: no run of the model comes near their wrap-around)
StoreAfter(op, s, key, value) ==
    CASE op = "Add" ->
           [s |-> [s EXCEPT !.values = [k \in DOMAIN s.values \cup {key} |->
                                           IF k = key THEN value ELSE s.values[k]],
                            !.writeCount = @ + 1],
            ret |-> NoReturn]
      [] op = "Get" ->
           IF key \in DOMAIN s.values
           THEN [s |-> [s EXCEPT !.readCount = @ + 1],
                 ret |-> [NoReturn EXCEPT !.v = s.values[key]]]
           ELSE [s |-> s, ret |-> NoReturn]
      [] op = "Contains" ->
           [s |-> s, ret |-> [NoReturn EXCEPT !.b = key \in DOMAIN s.values]]
      [] op = "Remove" ->
           IF key \in DOMAIN s.values
           THEN [s |-> [s EXCEPT !.values = [k \in DOMAIN s.values \ {key} |-> s.values[k]]],
                 ret |-> [NoReturn EXCEPT !.b = TRUE]]
           ELSE [s |-> s, ret |-> NoReturn]
      [] op = "Clear" ->
           [s |-> [s EXCEPT !.values = [k \in {} |-> 0]], ret |-> NoReturn]
      [] op = "Size" ->
           [s |-> s, ret |-> [NoReturn EXCEPT !.n = Cardinality(DOMAIN s.values)]]
      [] op = "Empty" ->
           [s |-> s, ret |-> [NoReturn EXCEPT !.b = Cardinality(DOMAIN s.values) = 0]]
      [] op \in {"Serialize", "ToJSON", "SerializeBinary"} ->
           [s |-> [s EXCEPT !.serializationCount = @ + 1], ret |-> NoReturn]
      [] op = "ResetStatistics" ->
           [s |-> [s EXCEPT !.readCount = 0, !.writeCount = 0,
                            !.serializationCount = 0],
            ret |-> NoReturn]
      [] OTHER -> [s |-> s, ret |-> NoReturn]

Outside == [op |-> "none", how |-> "none", key |-> <<>>, value |-> 0]

InitStore ==
    /\ store = [values |-> [k \in {} |-> 0], threadSafeEnabled |-> FALSE,
                readCount |-> 0, writeCount |-> 0, serializationCount |-> 0]
    /\ mutex = Unlocked
    /\ inside = [w \in Workers |-> Outside]
    /\ last = [op |-> "none", key |-> <<>>, value |-> 0, ret |-> NoReturn,
               found |-> [k \in {} |-> 0]]
    /\ tally = [adds |-> 0, hits |-> 0, serializations |-> 0, calls |-> 0,
                sequential |-> TRUE, distinctAdds |-> TRUE]

\* EnableThreadSafety, before the store is shared
EnableThreadSafety ==
    /\ tally.calls = 0 /\ ~store.threadSafeEnabled
    /\ store' = [store EXCEPT !.threadSafeEnabled = TRUE]
    /\ UNCHANGED <<mutex, inside, last, tally, storeRest>>

\* worker w calls a method and gets past its lock
StoreEnter(w, op, key, value) ==
    /\ inside[w] = Outside
    /\ tally.calls < MaxCalls
    /\ LET how == IF store.threadSafeEnabled THEN StoreAccess(op).lock ELSE "none"
       IN  /\ Acquire(mutex, w, how).ok
           /\ mutex' = Acquire(mutex, w, how).m
           /\ inside' = [inside EXCEPT ![w] =
                            [op |-> op, how |-> how, key |-> key, value |-> value]]
    /\ tally' = [tally EXCEPT
                   !.calls = @ + 1,
                   !.sequential = @ /\ \A v \in Workers : inside[v] = Outside,
                   !.distinctAdds = @ /\ op = "Add" /\ key \notin DOMAIN store.values
                                      /\ \A v \in Workers : inside[v].key # key]
    /\ UNCHANGED <<store, last, storeRest>>

\* w does what the method does and returns
StoreLeave(w) ==
    /\ inside[w] # Outside
    /\ LET c == inside[w]
           r == StoreAfter(c.op, store, c.key, c.value)
       IN  /\ store' = r.s
           /\ last' = [op |-> c.op, key |-> c.key, value |-> c.value, ret |-> r.ret,
                       found |-> store.values]
           /\ tally' =
                IF c.op = "ResetStatistics"
                THEN [tally EXCEPT !.adds = 0, !.hits = 0, !.serializations = 0]
                ELSE [tally EXCEPT
                        !.adds = IF c.op = "Add" THEN @ + 1 ELSE @,
                        !.hits = IF c.op = "Get" /\ c.key \in DOMAIN store.values
                                 THEN @ + 1 ELSE @,
                        !.serializations =
                            IF c.op \in {"Serialize", "ToJSON", "SerializeBinary"}
                            THEN @ + 1 ELSE @]
           /\ mutex' = Release(mutex, w, c.how)
    /\ inside' = [inside EXCEPT ![w] = Outside]
    /\ UNCHANGED <<storeRest>>

NextStore ==
    \/ EnableThreadSafety
    \/ \E w \in Workers, op \in {"Add"}, key \in StoreKeys, value \in StoreValues :
          StoreEnter(w, op, key, value)
    \/ \E w \in Workers, op \in {"Get", "Contains", "Remove"}, key \in StoreKeys :
          StoreEnter(w, op, key, 0)
    \/ \E w \in Workers, op \in StoreOps \ {"Add", "Get", "Contains", "Remove"} :
          StoreEnter(w, op, <<>>, 0)
    \/ \E w \in Workers : StoreLeave(w)

(***************************************************************************)
(* ValueContainer.Copy. The units of a container are a Go slice: an array, *)
(* a length, and the capacity that is the size of the array. append        *)
(* writes into the array when there is room and moves to a new array when  *)
(* there is none. Two containers are alive at most, so two arrays are      *)
(* enough: a container that needs a new array takes the one the other      *)
(* container does not use.                                                 *)
(***************************************************************************)
\* the zero value of a cell
NoValue == [name |-> <<>>]

\* what is added to the containers
CopyInputs == {[name |-> Name(1)], [name |-> Name(2)]}

\* make([]Value, n) in array id: [h, s]
make(h, id, n) ==
    [h |-> [h EXCEPT ![id] = [i \in 1..n |-> NoValue]], s |-> [arr |-> id, len |-> n]]

\* the elements of slice s
Elems(h, s) == SubSeq(h[s.arr], 1, s.len)

\* append(s, v), a new array being made in free: [h, s]
append(h, s, v, free) ==
    IF s.len < Len(h[s.arr])
    THEN [h |-> [h EXCEPT ![s.arr][s.len + 1] = v], s |-> [s EXCEPT !.len = @ + 1]]
    ELSE LET newcap == IF s.len = 0 THEN 1 ELSE 2 * s.len
         IN  [h |-> [h EXCEPT ![free] =
                       [i \in 1..newcap |->
                           IF i <= s.len THEN h[s.arr][i]
                           ELSE IF i = s.len + 1 THEN v ELSE NoValue]],
              s |-> [arr |-> free, len |-> s.len + 1]]

\* the loop of RemoveValue: each of vs appended to s
RECURSIVE appendAll(_, _, _, _)
appendAll(h, s, vs, free) ==
    IF vs = <<>> THEN [h |-> h, s |-> s]
    ELSE LET r == append(h, s, Head(vs), free)
         IN  appendAll(r.h, r.s, Tail(vs), free)

NoContainer == [header |-> <<>>, units |-> [arr |-> 0, len |-> 0]]

\* the array that container me may take: its own, unless other uses it too
Free(me, other) ==
    IF other.units.arr = me.units.arr THEN 3 - me.units.arr ELSE me.units.arr

\* a Copy that hands out the units of the original
Copy_sharing(h, c, containingValues) ==
    IF containingValues THEN [h |-> h, c |-> c]
    ELSE [h |-> make(h, 3 - c.units.arr, 0).h,
          c |-> [c EXCEPT !.units = make(h, 3 - c.units.arr, 0).s]]

\* ValueContainer.Copy: [h, c], the new container and the heap with its array
Copy(h, c, containingValues) ==
    LET id == 3 - c.units.arr
        newContainer == [header |-> <<c.header[1], c.header[2], c.header[3],
                                      c.header[4], c.header[5], c.header[6]>>,
                         units |-> make(h, id, 0).s]
    IN  IF containingValues
        THEN LET m == make(h, id, c.units.len)
             IN  [h |-> [m.h EXCEPT ![id] = [i \in 1..c.units.len |-> h[c.units.arr][i]]],
                  c |-> [newContainer EXCEPT !.units = m.s]]
        ELSE [h |-> make(h, id, 0).h, c |-> newContainer]

Other(t) == IF t = "orig" THEN "dup" ELSE "orig"

\* NewValueContainerFull, and no copy yet
InitCopy ==
    /\ heap = <<<<>>, <<>>>>
    /\ boxes = [orig |-> [header |-> <<"source", "sourceSub", "target", "targetSub",
                                       "messageType", "1.0.0.0">>,
                          units |-> [arr |-> 1, len |-> 0]],
                dup |-> NoContainer]
    /\ expect = [orig |-> <<>>, dup |-> <<>>]

DoCopy(containingValues) ==
    /\ boxes.dup = NoContainer
    /\ LET r == Copy(heap, boxes.orig, containingValues)
       IN  /\ heap' = r.h
           /\ boxes' = [boxes EXCEPT !.dup = r.c]
    /\ expect' = [expect EXCEPT !.dup = IF containingValues THEN expect.orig ELSE <<>>]
    /\ UNCHANGED <<copyRest>>

\* AddValue on container t
CopyAddValue(t, value) ==
    /\ boxes[t] # NoContainer
    /\ boxes[t].units.len < MaxCalls + 1
    /\ LET r == append(heap, boxes[t].units, value, Free(boxes[t], boxes[Other(t)]))
       IN  /\ heap' = r.h
           /\ boxes' = [boxes EXCEPT ![t].units = r.s]
    /\ expect' = [expect EXCEPT ![t] = @ \o <<value>>]
    /\ UNCHANGED <<copyRest>>

\* RemoveValue on container t
CopyRemoveValue(t, name) ==
    /\ boxes[t] # NoContainer
    /\ LET free == Free(boxes[t], boxes[Other(t)])
           survivors == RemoveValue(Elems(heap, boxes[t].units), name)
           newUnits == make(heap, free, 0)
           r == appendAll(newUnits.h, newUnits.s, survivors, free)
       IN  /\ heap' = r.h
           /\ boxes' = [boxes EXCEPT ![t].units = r.s]
    /\ expect' = [expect EXCEPT ![t] = SelectSeq(@, LAMBDA c : c.name # name)]
    /\ UNCHANGED <<copyRest>>

\* ClearValues on container t
CopyClearValues(t) ==
    /\ boxes[t] # NoContainer
    /\ LET r == make(heap, Free(boxes[t], boxes[Other(t)]), 0)
       IN  /\ heap' = r.h
           /\ boxes' = [boxes EXCEPT ![t].units = r.s]
    /\ expect' = [expect EXCEPT ![t] = <<>>]
    /\ UNCHANGED <<copyRest>>

NextCopy ==
    \/ \E containingValues \in BOOLEAN : DoCopy(containingValues)
    \/ \E t \in {"orig", "dup"}, value \in CopyInputs : CopyAddValue(t, value)
    \/ \E t \in {"orig", "dup"}, name \in {Name(1), Name(2)} : CopyRemoveValue(t, name)
    \/ \E t \in {"orig", "dup"} : CopyClearValues(t)

(***************************************************************************)
(* ValueType as text: String and ParseValueType.                           *)
(***************************************************************************)
MaxCode == 17

\* the decimal digits of n >= 0, as %d and the other implementations write it
RECURSIVE Itoa(_)
Itoa(n) == IF n < 10 THEN <<48 + n>> ELSE Itoa(n \div 10) \o <<48 + (n % 10)>>

\* ValueType.String
ValueType_String(vt) ==
    CASE vt = NullValue -> <<48>>
      [] vt = BoolValue -> <<49>>
      [] vt = ShortValue -> <<50>>
      [] vt = UShortValue -> <<51>>
      [] vt = IntValue -> <<52>>
      [] vt = UIntValue -> <<53>>
      [] vt = LongValue -> <<54>>
      [] vt = ULongValue -> <<55>>
      [] vt = LLongValue -> <<56>>
      [] vt = ULLongValue -> <<57>>
      [] vt = FloatValue -> <<49, 48>>
      [] vt = DoubleValue -> <<49, 49>>
      [] vt = BytesValue -> <<49, 50>>
      [] vt = StringValue -> <<49, 51>>
      [] vt = ContainerValue -> <<49, 52>>
      [] vt = ArrayValue -> <<49, 53>>
      [] OTHER -> <<48>>

\* ParseValueType: the kind, and whether an error is returned with it (the
\* function has one result, so never)
ParseValueType(s) ==
    LET vt == CASE s = <<48>> -> NullValue
                [] s = <<49>> -> BoolValue
                [] s = <<50>> -> ShortValue
                [] s = <<51>> -> UShortValue
                [] s = <<52>> -> IntValue
                [] s = <<53>> -> UIntValue
                [] s = <<54>> -> LongValue
                [] s = <<55>> -> ULongValue
                [] s = <<56>> -> LLongValue
                [] s = <<57>> -> ULLongValue
                [] s = <<49, 48>> -> FloatValue
                [] s = <<49, 49>> -> DoubleValue
                [] s = <<49, 50>> -> BytesValue
                [] s = <<49, 51>> -> StringValue
                [] s = <<49, 52>> -> ContainerValue
                [] s = <<49, 53>> -> ArrayValue
                [] OTHER -> NullValue
    IN  [vt |-> vt, err |-> FALSE]

NoText == [of |-> -1, s |-> <<>>]

NotParsed == [from |-> -1, s |-> <<>>, vt |-> -1, err |-> FALSE]

InitKind ==
    /\ text = NoText
    /\ parsed = NotParsed

\* vt.String() of a ValueType vt
DoString(vt) ==
    /\ text' = [of |-> vt, s |-> ValueType_String(vt)]
    /\ UNCHANGED <<parsed, kindRest>>

\* the type of a value arrives as text: the code n in decimal digits
ReceiveCode(n) ==
    /\ text' = [of |-> -1, s |-> Itoa(n)]
    /\ UNCHANGED <<parsed, kindRest>>

\* ParseValueType of the text
DoParse ==
    /\ text # NoText
    /\ LET r == ParseValueType(text.s)
       IN  parsed' = [from |-> text.of, s |-> text.s, vt |-> r.vt, err |-> r.err]
    /\ UNCHANGED <<text, kindRest>>

NextKind ==
    \/ \E vt \in 0..MaxCode : DoString(vt)
    \/ \E n \in 0..MaxCode : ReceiveCode(n)
    \/ DoParse

(***************************************************************************)
(* ValueContainer.Serialize and Deserialize: the header line.              *)
(***************************************************************************)
MaxFieldLen == 1

\* 'a', '|' and '\n'
Alphabet == {97, 124, 10}

FieldInputs == UNION {[1..n -> Alphabet] : n \in 0..MaxFieldLen}

\* String("a", "x") and Int32("ab", 30)
HeaderValues == {NewStringValue(Name(1), <<120>>), NewInt32Value(Name(2), WOfInt(30))}

\* strings.Join
RECURSIVE Join(_, _)
Join(strs, sep) ==
    IF strs = <<>> THEN <<>>
    ELSE IF Len(strs) = 1 THEN strs[1]
    ELSE strs[1] \o sep \o Join(Tail(strs), sep)

\* strings.Split by the one-byte separator sep
RECURSIVE Split(_, _)
Split(s, sep) ==
    IF \A i \in 1..Len(s) : s[i] # sep THEN <<s>>
    ELSE LET i == CHOOSE i \in 1..Len(s) :
                      s[i] = sep /\ \A j \in 1..i - 1 : s[j] # sep
         IN  <<SubSeq(s, 1, i - 1)>> \o Split(SubSeq(s, i + 1, Len(s)), sep)

\* BaseValue.Serialize: name|type|len(data)
BaseValue_Serialize(v) ==
    v.name \o <<124>> \o ValueType_String(v.kind) \o <<124>> \o Itoa(Len(v.data))

\* NewValueContainer: version "1.0.0.0"
NewValueContainer ==
    [sourceID |-> <<>>, sourceSubID |-> <<>>, targetID |-> <<>>,
     targetSubID |-> <<>>, messageType |-> <<>>,
     version |-> <<49, 46, 48, 46, 48, 46, 48>>, units |-> <<>>]

\* ValueContainer.Serialize, of units whose Serialize is BaseValue.Serialize
\* (which returns no error)
Serialize(c) ==
    LET header == Join(<<c.sourceID, c.sourceSubID, c.targetID, c.targetSubID,
                         c.messageType, c.version>>, <<124>>)
        valueStrs == [i \in 1..Len(c.units) |-> BaseValue_Serialize(c.units[i])]
        data == Join(valueStrs, <<124>>)
    IN  [s |-> header \o <<10>> \o data, err |-> FALSE]

\* ValueContainer.SerializeArray: the bytes of the string
SerializeArray(c) == Serialize(c)

\* ValueContainer.Deserialize
Deserialize(c, data) ==
    LET lines == Split(data, 10)
        headerParts == Split(lines[1], 124)
    IN  IF Len(lines) < 1 THEN [c |-> c, err |-> TRUE]
        ELSE [c |-> IF Len(headerParts) >= 6
                    THEN [c EXCEPT !.sourceID = headerParts[1],
                                   !.sourceSubID = headerParts[2],
                                   !.targetID = headerParts[3],
                                   !.targetSubID = headerParts[4],
                                   !.messageType = headerParts[5],
                                   !.version = headerParts[6]]
                    ELSE c,
              err |-> FALSE]

\* ValueContainer.DeserializeArray: the string of the bytes
DeserializeArray(c, data) == Deserialize(c, data)

NotSent == [s |-> <<>>, by |-> "none"]

NotLoaded == [c |-> NewValueContainer, err |-> FALSE, by |-> "none"]

InitHeader ==
    /\ phase = "build"
    /\ sender = NewValueContainer
    /\ sent = NotSent
    /\ loaded = NotLoaded

SetSource(sourceID, sourceSubID) ==
    /\ phase = "build"
    /\ sender' = [sender EXCEPT !.sourceID = sourceID, !.sourceSubID = sourceSubID]
    /\ UNCHANGED <<phase, sent, loaded, headerRest>>

SetTarget(targetID, targetSubID) ==
    /\ phase = "build"
    /\ sender' = [sender EXCEPT !.targetID = targetID, !.targetSubID = targetSubID]
    /\ UNCHANGED <<phase, sent, loaded, headerRest>>

SetMessageType(messageType) ==
    /\ phase = "build"
    /\ sender' = [sender EXCEPT !.messageType = messageType]
    /\ UNCHANGED <<phase, sent, loaded, headerRest>>

\* AddValue on the sender, once
HeaderAddValue(value) ==
    /\ phase = "build"
    /\ sender.units = <<>>
    /\ sender' = [sender EXCEPT !.units = AddValue(@, value)]
    /\ UNCHANGED <<phase, sent, loaded, headerRest>>

\* sender.Serialize() or sender.SerializeArray()
DoSerialize(by) ==
    /\ phase = "build"
    /\ LET r == IF by = "Serialize" THEN Serialize(sender) ELSE SerializeArray(sender)
       IN  /\ ~r.err
           /\ sent' = [s |-> r.s, by |-> by]
    /\ phase' = "sent"
    /\ UNCHANGED <<sender, loaded, headerRest>>

\* Deserialize or DeserializeArray on a fresh container, with what was sent
DoDeserialize ==
    /\ phase = "sent"
    /\ LET r == IF sent.by = "Serialize"
                THEN Deserialize(NewValueContainer, sent.s)
                ELSE DeserializeArray(NewValueContainer, sent.s)
       IN  loaded' = [c |-> r.c, err |-> r.err, by |-> sent.by]
    /\ phase' = "loaded"
    /\ UNCHANGED <<sender, sent, headerRest>>

NextHeader ==
    \/ \E sourceID \in FieldInputs, sourceSubID \in FieldInputs :
          SetSource(sourceID, sourceSubID)
    \/ \E targetID \in FieldInputs, targetSubID \in FieldInputs :
          SetTarget(targetID, targetSubID)
    \/ \E messageType \in FieldInputs : SetMessageType(messageType)
    \/ \E value \in HeaderValues : HeaderAddValue(value)
    \/ \E by \in {"Serialize", "SerializeArray"} : DoSerialize(by)
    \/ DoDeserialize

(***************************************************************************)
(* ValueStore.SerializeBinary and DeserializeBinary.                       *)
(***************************************************************************)
BinaryVersion == 1

\* the entries of a store: Null, Bool(true) and String("xy") under a key
EntryInputs ==
    {[key |-> key, vtype |-> v[1], data |-> v[2]] :
        key \in StoreKeys,
        v \in {<<NullValue, <<>>>>, <<BoolValue, <<1>>>>, <<StringValue, <<120, 121>>>>}}

\* the factories a caller passes: none, one that makes a value of every
\* type, and one that returns an error for a type that is no kind
Factories == {"nil", "any", "kinds"}

CallFactory(factory, name, vtype, valueData) ==
    [v |-> NewBaseValue(name, vtype, valueData),
     err |-> factory = "kinds" /\ vtype \notin NullValue..ArrayValue]

\* the loop of SerializeBinary over the map, es in the order of the iteration
RECURSIVE serializeEntries(_)
serializeEntries(es) ==
    IF es = <<>> THEN <<>>
    ELSE LET e == Head(es)
         IN  le32(Len(e.key)) \o e.key \o <<e.vtype>> \o le32(Len(e.data)) \o e.data
                 \o serializeEntries(Tail(es))

SerializeBinary(es) == <<BinaryVersion>> \o le32(Len(es)) \o serializeEntries(es)

\* the offset of entry e in SerializeBinary(es)
EntryOffset(es, e) == Len(SerializeBinary(SubSeq(es, 1, e - 1)))

\* binary.LittleEndian.Uint32(d[offset:]) is in range
Uint32OK(d, offset) == 0 <= offset /\ offset + 4 <= d.len

\* store.values[key] = value
Put(values, key, value) ==
    [k \in DOMAIN values \cup {key} |-> IF k = key THEN value ELSE values[k]]

NoStore == [values |-> <<>>, nil |-> TRUE]

\* what DeserializeBinary returns: status "ok" (the store and a nil error),
\* "err" (a nil store and an error) or "panic"; oob tells that a byte at an
\* index >= len(data) was read
BErr == [status |-> "err", store |-> NoStore, oob |-> FALSE]

BPanic == [status |-> "panic", store |-> NoStore, oob |-> FALSE]

BOk(values, oob) ==
    [status |-> "ok", store |-> [values |-> values, nil |-> FALSE], oob |-> oob]

\* no length is compared with the data
Truncated_unchecked(d, offset, need) == FALSE

\* the checks before the reads: offset + need > len(data)
Truncated(d, offset, need) == offset + need > d.len

\* the loop of DeserializeBinary, from entry i at offset
RECURSIVE readEntries(_, _, _, _, _, _, _)
readEntries(d, offset, i, count, factory, values, oob) ==
    IF i >= count THEN BOk(values, oob)
    ELSE IF Truncated(d, offset, 4) THEN BErr
    ELSE IF ~Uint32OK(d, offset) THEN BPanic
    ELSE LET keyLen == intOf(readU32(d, offset))
             keyAt == offset + 4
             typeAt == keyAt + keyLen
             valueAt == typeAt + 5
         IN  IF Truncated(d, keyAt, keyLen + 5) THEN BErr
             ELSE IF ~SliceOK(d, keyAt, keyAt + keyLen) THEN BPanic
             ELSE IF ~IndexOK(d, typeAt) THEN BPanic
             ELSE IF ~Uint32OK(d, typeAt + 1) THEN BPanic
             ELSE LET key == Sub(d, keyAt, keyAt + keyLen)
                      vtype == d.arr[typeAt + 1]
                      valueLen == intOf(readU32(d, typeAt + 1))
                      read == oob \/ valueAt + valueLen > d.len
                      created == CallFactory(factory, key, vtype,
                                          Sub(d, valueAt, valueAt + valueLen))
                  IN  IF Truncated(d, valueAt, valueLen) THEN BErr
                      ELSE IF ~SliceOK(d, valueAt, valueAt + valueLen) THEN BPanic
                      ELSE IF factory = "nil"
                           THEN readEntries(d, valueAt + valueLen, i + 1, count,
                                            factory, values, read)
                      ELSE IF created.err THEN BErr
                      ELSE readEntries(d, valueAt + valueLen, i + 1, count,
                                       factory, Put(values, key, created.v), read)

DeserializeBinary(d, factory) ==
    IF d.len < 5 THEN BErr
    ELSE IF d.arr[1] # BinaryVersion THEN BErr
    ELSE readEntries(d, 5, 0, intOf(readU32(d, 1)), factory, <<>>, FALSE)

Whole == [kind |-> "SerializeBinary", at |-> 0]

NoOut == [status |-> "none", store |-> NoStore, oob |-> FALSE, factory |-> "none"]

InitBinary ==
    /\ stage = "build"
    /\ entries = <<>>
    /\ bin = AsSlice(<<>>)
    /\ origin = Whole
    /\ out = NoOut

\* Add of a key the store does not hold; the entries are kept in the order
\* in which SerializeBinary will meet them
BinAdd(entry) ==
    /\ stage = "build"
    /\ \A i \in 1..Len(entries) : entries[i].key # entry.key
    /\ entries' = Append(entries, entry)
    /\ UNCHANGED <<stage, bin, origin, out, binaryRest>>

BinSerialize ==
    /\ stage = "build"
    /\ bin' = AsSlice(SerializeBinary(entries))
    /\ origin' = Whole
    /\ stage' = "encoded"
    /\ UNCHANGED <<entries, out, binaryRest>>

\* the first k bytes: the slice expression b[:k], which keeps the capacity
\* of b (keep), or a copy of them
BinTruncate(k, keep) ==
    /\ stage = "encoded" /\ origin = Whole
    /\ k < bin.len
    /\ bin' = [arr |-> IF keep THEN bin.arr ELSE SubSeq(bin.arr, 1, k), len |-> k]
    /\ origin' = [kind |-> "prefix", at |-> k]
    /\ UNCHANGED <<stage, entries, out, binaryRest>>

\* another version byte
BinSetVersion(version) ==
    /\ stage = "encoded" /\ origin = Whole
    /\ version # BinaryVersion
    /\ bin' = [bin EXCEPT !.arr[1] = version]
    /\ origin' = [kind |-> "version", at |-> 0]
    /\ UNCHANGED <<stage, entries, out, binaryRest>>

\* other bytes in the key length (ofKey) or the value length of entry e
BinSetLength(e, ofKey, length) ==
    /\ stage = "encoded" /\ origin = Whole
    /\ e \in 1..Len(entries)
    /\ LET field == IF ofKey THEN EntryOffset(entries, e)
                    ELSE EntryOffset(entries, e) + 4 + Len(entries[e].key) + 1
       IN  /\ bin' = [bin EXCEPT !.arr = [i \in 1..Len(bin.arr) |->
                                             IF i \in field + 1 .. field + 4
                                             THEN length[i - field]
                                             ELSE bin.arr[i]]]
           /\ origin' = [kind |-> "length", at |-> field]
    /\ UNCHANGED <<stage, entries, out, binaryRest>>

\* another type byte in entry e
BinSetType(e, vtype) ==
    /\ stage = "encoded" /\ origin = Whole
    /\ e \in 1..Len(entries)
    /\ LET field == EntryOffset(entries, e) + 4 + Len(entries[e].key)
       IN  /\ bin' = [bin EXCEPT !.arr[field + 1] = vtype]
           /\ origin' = [kind |-> "type", at |-> field]
    /\ UNCHANGED <<stage, entries, out, binaryRest>>

BinDecode(factory) ==
    /\ stage = "encoded"
    /\ LET r == DeserializeBinary(bin, factory)
       IN  out' = [status |-> r.status, store |-> r.store, oob |-> r.oob,
                   factory |-> factory]
    /\ stage' = "decoded"
    /\ UNCHANGED <<entries, bin, origin, binaryRest>>

LengthInputs == {le32(1), le32(3), le32(200), <<0, 0, 0, 64>>, <<255, 255, 255, 255>>}

NextBinary ==
    \/ \E entry \in EntryInputs : BinAdd(entry)
    \/ BinSerialize
    \/ \E k \in 0..bin.len, keep \in BOOLEAN : BinTruncate(k, keep)
    \/ \E version \in {0, 2, 255} : BinSetVersion(version)
    \/ \E e \in 1..2, ofKey \in BOOLEAN, length \in LengthInputs :
          BinSetLength(e, ofKey, length)
    \/ \E e \in 1..2, vtype \in {16, 255} : BinSetType(e, vtype)
    \/ \E factory \in Factories : BinDecode(factory)

(***************************************************************************)
(* ContainerBuilder: WithValues and Build.  The slices of the builder and  *)
(* of the containers it builds are [arr, len] over the arrays of a heap    *)
(* of four arrays; an array that nothing refers to is collected.  The      *)
(* header fields and the threadSafe flag, which Build hands on as they     *)
(* are, are left out.                                                      *)
(***************************************************************************)
MaxValues == 3

Built == {1, 2}

\* append(s, vs...) as the runtime grows a slice of interface values of up
\* to 8 elements: in place when the capacity suffices, or else a new array,
\* made in free, of twice the capacity, of the length needed if that is
\* more: [h, s]
appendSlice(h, s, vs, free) ==
    LET oldcap == Len(h[s.arr])
        needed == s.len + Len(vs)
        newcap == IF needed > 2 * oldcap THEN needed ELSE 2 * oldcap
        written(a) == [i \in 1..Len(a) |->
                          IF i > s.len /\ i <= needed THEN vs[i - s.len] ELSE a[i]]
    IN  IF needed <= oldcap
        THEN [h |-> [h EXCEPT ![s.arr] = written(@)], s |-> [s EXCEPT !.len = needed]]
        ELSE [h |-> [h EXCEPT ![free] =
                       written([i \in 1..newcap |->
                                   IF i <= s.len THEN h[s.arr][i] ELSE NoValue])],
              s |-> [arr |-> free, len |-> needed]]

NotBuilt == [units |-> [arr |-> 0, len |-> 0]]

\* the arrays that the builder b and the containers cs refer to
Live(b, cs) == {b.values.arr} \cup {cs[t].units.arr : t \in Built}

\* an array that nothing refers to
Unused(h, b, cs) == CHOOSE id \in DOMAIN h : id \notin Live(b, cs)

\* the heap after the collector took the arrays that nothing refers to
Collected(h, b, cs) == [id \in DOMAIN h |-> IF id \in Live(b, cs) THEN h[id] ELSE <<>>]

\* NewContainerBuilder: values: make([]core.Value, 0)
InitBuilder ==
    /\ arrays = <<<<>>, <<>>, <<>>, <<>>>>
    /\ builder = [values |-> [arr |-> 1, len |-> 0]]
    /\ built = [t \in Built |-> NotBuilt]
    /\ wanted = [t \in Built |-> <<>>]

WithValues(values) ==
    /\ builder.values.len + Len(values) <= MaxValues
    /\ LET r == appendSlice(arrays, builder.values, values,
                            Unused(arrays, builder, built))
           b == [builder EXCEPT !.values = r.s]
       IN  /\ arrays' = Collected(r.h, b, built)
           /\ builder' = b
    /\ UNCHANGED <<built, wanted, builderRest>>

\* Build: NewValueContainerFull(..., b.values...) keeps the slice it is
\* given as the units of the container
Build(t) ==
    /\ built[t] = NotBuilt
    /\ \A u \in Built : u < t => built[u] # NotBuilt
    /\ built' = [built EXCEPT ![t] = [units |-> builder.values]]
    /\ wanted' = [wanted EXCEPT ![t] = Elems(arrays, builder.values)]
    /\ UNCHANGED <<arrays, builder, builderRest>>

\* AddValue on the built container t: c.units = append(c.units, value)
BuiltAddValue(t, value) ==
    /\ built[t] # NotBuilt
    /\ built[t].units.len <= MaxValues
    /\ LET r == appendSlice(arrays, built[t].units, <<value>>,
                            Unused(arrays, builder, built))
           cs == [built EXCEPT ![t].units = r.s]
       IN  /\ arrays' = Collected(r.h, builder, cs)
           /\ built' = cs
    /\ wanted' = [wanted EXCEPT ![t] = Append(@, value)]
    /\ UNCHANGED <<builder, builderRest>>

NextBuilder ==
    \/ \E values \in UNION {[1..n -> {[name |-> Name(1)]}] : n \in 1..2} :
          WithValues(values)
    \/ \E t \in Built : Build(t)
    \/ \E t \in Built, value \in CopyInputs : BuiltAddValue(t, value)

Init ==
    /\ InitCodec /\ InitLookup /\ InitValue /\ InitArray /\ InitShared /\ InitStore
    /\ InitCopy /\ InitKind /\ InitHeader /\ InitBinary /\ InitBuilder

SpecBuilder == Init /\ [][NextBuilder]_vars

SpecBinary == Init /\ [][NextBinary]_vars

SpecKind == Init /\ [][NextKind]_vars

SpecHeader == Init /\ [][NextHeader]_vars

SpecArray == Init /\ [][NextArray]_vars

SpecShared == Init /\ [][NextShared]_vars

SpecStore == Init /\ [][NextStore]_vars

SpecCopy == Init /\ [][NextCopy]_vars

SpecCodec == Init /\ [][NextCodec]_vars

SpecLookup == Init /\ [][NextLookup]_vars

SpecValue == Init /\ [][NextValue]_vars

(***************************************************************************)
(* Properties of the codec (under SpecCodec).                              *)
(***************************************************************************)
\* the decoder returned v whole: the same kind, name and payload, and for a
\* composite the same children in the same order
RECURSIVE SameTree(_, _)
SameTree(a, b) ==
    /\ a.kind = b.kind
    /\ a.name = b.name
    /\ a.data = b.data
    /\ Len(a.elems) = Len(b.elems)
    /\ \A i \in 1..Len(a.elems) : SameTree(a.elems[i], b.elems[i])

RoundTripped == res.status = "ok" /\ SameTree(res.value, val)

\* C1: every scalar value built by a constructor, encoded by its ToBytes and
\* decoded by deserializeValue, comes back with the same kind, name and
\* payload, and the consumed-byte count is the length of the encoding.
C1_ScalarRoundTrip ==
    (pc = "decoded" /\ org = "ToBytes" /\ ~IsComposite(val)
        /\ res.fn = "deserializeValue")
    => (RoundTripped /\ res.n = buf.len)

\* C2: every array of Int32 and String elements, encoded by ToBinaryBytes
\* and decoded by DeserializeArrayValue, comes back with the same name, the
\* same count and, at every index, an element of the same name and value.
C2_ArrayRoundTrip ==
    (pc = "decoded" /\ org = "ToBytes" /\ val.typ = "ArrayValue"
        /\ (\A i \in 1..Len(val.elems) :
               val.elems[i].typ \in {"Int32Value", "StringValue"})
        /\ res.fn = "DeserializeArrayValue")
    => RoundTripped

\* C3: a composite that holds other composites (the container "user" with
\* its array "tags", composites nested to depth 4), encoded and decoded,
\* comes back as the same tree.
C3_NestedRoundTrip ==
    (pc = "decoded" /\ org = "ToBytes" /\ IsComposite(val)
        /\ (\E i \in 1..Len(val.elems) : IsComposite(val.elems[i]))
        /\ res.fn = (IF val.typ = "ArrayValue" THEN "DeserializeArrayValue"
                     ELSE "deserializeValue"))
    => RoundTripped

\* C4: decoding a proper prefix of a valid encoded buffer returns an error,
\* reads no byte at an index >= the length of the prefix and does not panic.
C4_PrefixFails ==
    (pc = "decoded" /\ org = "prefix") => (res.status = "err" /\ ~res.oob)

\* C5: decoding a buffer whose kind tag is 16 or any other byte outside
\* 0..15 returns an error and no value.
C5_UnknownTagFails ==
    (pc = "decoded" /\ org = "tag") => (res.status = "err" /\ res.value = Nil)

C5_Witness ==
    /\ pc = "decoded" /\ org = "tag"
    /\ buf.arr[1] = 16 /\ buf.len >= 13
    /\ res.fn = "deserializeValue" /\ res.status = "err"

\* C6: decoding an array buffer whose element_count declares more elements
\* than the bytes hold returns an error (never a shorter array).
C6_OverCountFails ==
    (pc = "decoded" /\ org = "count" /\ res.fn = "DeserializeArrayValue")
    => res.status = "err"

(***************************************************************************)
(* Properties of the constructors and conversions (under SpecValue).       *)
(***************************************************************************)
\* x is in [-2^31, 2^31 - 1]: the two upper limbs are the sign extension
InInt32(x) ==
    \/ x[4] = 0 /\ x[3] = 0 /\ x[2] < 32768
    \/ x[4] = -1 /\ x[3] = B16 - 1 /\ x[2] >= 32768

\* x is in [0, 2^32 - 1]
InUInt32(x) == x[4] = 0 /\ x[3] = 0

\* byte i (0 the least significant) of the two's complement of x
ByteOf(x, i) ==
    LET limb == x[i \div 2 + 1] % B16
    IN  IF i % 2 = 0 THEN limb % 256 ELSE limb \div 256

LittleEndian(x, n) == [i \in 1..n |-> ByteOf(x, i - 1)]

\* C7: NewLongValue succeeds exactly for -2^31 <= v <= 2^31 - 1 and
\* NewULongValue exactly for v <= 2^32 - 1; a failure returns an error and
\* no value; on success Value() is v and the payload is the 4 little-endian
\* bytes of v.  NewInt64Value and NewUInt64Value accept every input.
C7_LongRange ==
    /\ made.fn = "NewLongValue" =>
          /\ made.err = "" <=> InInt32(made.arg)
          /\ made.err # "" => made.v = Nil
          /\ made.err = "" =>
                /\ made.v # Nil /\ made.v.kind = LongValue
                /\ made.v.value.i = made.arg
                /\ made.v.data = LittleEndian(made.arg, 4)
    /\ made.fn = "NewULongValue" =>
          /\ made.err = "" <=> InUInt32(made.arg)
          /\ made.err # "" => made.v = Nil
          /\ made.err = "" =>
                /\ made.v # Nil /\ made.v.kind = ULongValue
                /\ made.v.value.i = made.arg
                /\ made.v.data = LittleEndian(made.arg, 4)
    /\ made.fn \in {"NewInt64Value", "NewUInt64Value"} =>
          /\ made.err = "" /\ made.v # Nil
          /\ made.v.value.i = made.arg
          /\ made.v.data = LittleEndian(made.arg, 8)

\* NewLongValue refused 2^31
C7_Witness ==
    /\ made.fn = "NewLongValue"
    /\ made.arg = <<0, 32768, 0, 0>>
    /\ made.err # "" /\ made.v = Nil

NumericConversions ==
    {"ToBool", "ToInt16", "ToUInt16", "ToInt32", "ToUInt32", "ToInt64",
     "ToUInt64", "ToFloat32", "ToFloat64"}

OnNull == made.v.kind = NullValue /\ conv.to # "none"

\* C8 as stated: every conversion on a Null value returns an error.
C8_AllFailOnNull == OnNull => conv.err # ""

\* C8: on a Null value every numeric conversion (ToBool .. ToFloat64)
\* returns an error; ToString returns "null" for a NewNullValue value and ""
\* for the placeholder of a failed lookup, with no error; ToBytes returns
\* the empty payload with no error.
C8_NullConversions ==
    OnNull =>
       /\ conv.to \in NumericConversions => conv.err # "" /\ conv.r = NoNative
       /\ conv.to = "ToString" =>
             /\ conv.err = ""
             /\ made.fn = "NewNullValue" => conv.r.s = <<110, 117, 108, 108>>
             /\ made.fn = "GetChild" => conv.r.s = <<>>
       /\ conv.to = "ToBytes" => conv.err = "" /\ conv.r.s = <<>>

C8_Witness ==
    /\ made.fn = "GetChild" /\ made.v.kind = NullValue
    /\ conv.to = "ToInt64" /\ conv.err # ""

\* the width in bits of an integer kind, and of the result of a conversion
KindBits(kind) ==
    CASE kind \in {ShortValue, UShortValue} -> 16
      [] kind \in {IntValue, UIntValue, LongValue, ULongValue} -> 32
      [] kind \in {LLongValue, ULLongValue} -> 64
      [] OTHER -> 0

ResultBits(to) ==
    CASE to \in {"ToInt16", "ToUInt16"} -> 16
      [] to \in {"ToInt32", "ToUInt32"} -> 32
      [] to \in {"ToInt64", "ToUInt64"} -> 64
      [] OTHER -> 0

\* the conversions each type declares, besides those of BaseValue
Declares(typ) ==
    CASE typ = "BoolValue" -> {"ToBool", "ToInt32", "ToInt64"}
      [] typ = "Int16Value" -> {"ToInt16", "ToInt32", "ToInt64"}
      [] typ = "UInt16Value" -> {"ToUInt16", "ToUInt32", "ToUInt64"}
      [] typ = "Int32Value" -> {"ToInt32", "ToInt64"}
      [] typ = "UInt32Value" -> {"ToUInt32", "ToUInt64"}
      [] typ = "LongValue" -> {"ToInt32", "ToInt64"}
      [] typ = "ULongValue" -> {"ToUInt32", "ToUInt64"}
      [] typ = "Int64Value" -> {"ToInt64"}
      [] typ = "UInt64Value" -> {"ToUInt64"}
      [] typ = "Float32Value" -> {"ToFloat32", "ToFloat64"}
      [] typ = "Float64Value" -> {"ToFloat64"}
      [] OTHER -> {}

\* a float as mantissa * 2^exponent with an odd mantissa (0 * 2^0 for zero);
\* low is 0 in every float the conversions of the model meet here
RECURSIVE OddForm(_, _)
OddForm(m, e) ==
    IF m = 0 THEN <<0, 0>>
    ELSE IF m % 2 = 0 THEN OddForm(m \div 2, e + 1) ELSE <<m, e>>

Number32(f) ==
    <<f.neg>> \o (IF f.exp = -127 THEN OddForm(f.man, -149)
                  ELSE OddForm(2^23 + f.man, f.exp - 23))

Number64(f) ==
    <<f.neg>> \o (IF f.exp = -1023 THEN OddForm(f.man, -1045)
                  ELSE OddForm(2^23 + f.man, f.exp - 23))

\* the result of a successful conversion is numerically the stored value
SameNumber ==
    LET v == made.v
    IN  CASE conv.to = "ToBool" -> conv.r.b = v.value.b
          [] conv.to \in {"ToFloat32", "ToFloat64"} ->
               IF v.typ = "Float32Value" /\ conv.to = "ToFloat64"
               THEN conv.r.f.low = 0 /\ Number64(conv.r.f) = Number32(v.value.f)
               ELSE conv.r.f = v.value.f
          [] OTHER ->
               IF v.typ = "BoolValue"
               THEN conv.r.i = (IF v.value.b THEN <<1, 0, 0, 0>> ELSE <<0, 0, 0, 0>>)
               ELSE conv.r.i = v.value.i

OnScalar ==
    /\ made.v # Nil /\ made.v.kind # NullValue
    /\ conv.to \in NumericConversions

Expected(values, name, index) ==
    LET named == SelectSeq(values, LAMBDA c : c.name = name)
    IN  IF 0 <= index /\ index < Len(named) THEN named[index + 1]
        ELSE [typ |-> "BaseValue", kind |-> NullValue, name |-> <<>>,
              data |-> <<>>, value |-> NoNative, elems |-> <<>>]

C11_Children ==
    /\ Children(children) = kept.kids
    /\ ChildCount(children) = Len(Children(children))

\* two children of one name are kept side by side, after a third one
C11_Witness ==
    /\ ChildCount(children) = 3
    /\ Children(children)[2].name = Children(children)[3].name
    /\ Children(children)[1].name # Children(children)[2].name

IntegerKinds ==
    {ShortValue, UShortValue, IntValue, UIntValue, LongValue, ULongValue,
     LLongValue, ULLongValue}

\* C16: ToInt64 succeeds and returns the stored number on a value of every
\* integer kind, and returns an error on a value of every other kind.
C16_ToInt64 ==
    (made.v # Nil /\ conv.to = "ToInt64") =>
        IF made.v.kind \in IntegerKinds
        THEN conv.err = "" /\ conv.r.i = made.v.value.i
        ELSE conv.err # ""

(***************************************************************************)
(* Properties of an ArrayValue (under SpecArray).                          *)
(***************************************************************************)
\* C12: after any sequence of Append and Clear calls, Count() is the number
\* of elements appended since the last Clear (the constructor's elements
\* included if there was no Clear), IsEmpty() is true exactly when Count()
\* is 0, At(i) returns the i-th of them for 0 <= i < Count(), and At(i)
\* returns an error and no value for every other i.
C12_Array ==
    array # Nil =>
        /\ ArrayValue_Count(array) = Len(appended)
        /\ ArrayValue_IsEmpty(array) <=> ArrayValue_Count(array) = 0
        /\ at # NoAt =>
              IF 0 <= at.index /\ at.index < Len(appended)
              THEN at.err = "" /\ at.v = appended[at.index + 1]
              ELSE at.err # "" /\ at.v = Nil

\* At(2) is refused on an array of two elements, the first from the
\* constructor and the second appended
C12_Witness ==
    /\ array # Nil /\ ArrayValue_Count(array) = 2
    /\ array.elems[1] = NewInt32Value(<<>>, WOfInt(1))
    /\ array.elems[2] = Tags
    /\ at.index = 2 /\ at.err # "" /\ at.err # "none"

(***************************************************************************)
(* Properties of the shared ValueContainer (under SpecShared).             *)
(***************************************************************************)
AllIdle == \A g \in Goroutines : running[g] = Idle

\* C13: in thread-safe mode, once N AddValue calls made by several
\* goroutines (and no other call) have all returned, the container holds N
\* values and each value added exactly once.
C13_NoLostAppend ==
    (threadSafe /\ onlyAdds /\ AllIdle) =>
        /\ Len(cunits) = calls
        /\ \A id \in 1..calls :
              Cardinality({i \in 1..Len(cunits) : cunits[i].id = id}) = 1

\* three AddValue calls have returned, and the value of the second call
\* got in before that of the first
C13_Witness ==
    /\ threadSafe /\ onlyAdds /\ AllIdle
    /\ calls = 3 /\ Len(cunits) = 3
    /\ cunits[1].id = 2 /\ cunits[2].id = 1

Inside(g) == running[g].pc = "in"

Overlap(a, b) ==
    \/ a.units = "w" /\ b.units # "-"
    \/ b.units = "w" /\ a.units # "-"
    \/ a.header = "w" /\ b.header # "-"
    \/ b.header = "w" /\ a.header # "-"

\* C14: in thread-safe mode, a goroutine inside AddValue, RemoveValue or
\* ClearValues holds the exclusive lock, a goroutine inside GetValue,
\* GetValues, Values, Copy, Serialize or SwapHeader holds the lock, and no
\* write to the units or to the header overlaps another access to the same.
C14_Locked ==
    threadSafe =>
        /\ \A g \in Goroutines :
              (Inside(g) /\ running[g].op \in {"AddValue", "RemoveValue", "ClearValues"})
                 => mu.writer = g
        /\ \A g \in Goroutines :
              (Inside(g) /\ running[g].op \in {"GetValue", "GetValues", "Values", "Copy",
                                                "Serialize", "SwapHeader"})
                 => (mu.writer = g \/ g \in mu.readers)
        /\ \A g, h \in Goroutines :
              (g # h /\ Inside(g) /\ Inside(h))
                 => ~Overlap(Access(running[g].op), Access(running[h].op))

(***************************************************************************)
(* Properties of the ValueStore (under SpecStore).                         *)
(***************************************************************************)
AllOutside == \A w \in Workers : inside[w] = Outside

Size == StoreAfter("Size", store, <<>>, 0).ret.n

\* C17: with thread safety enabled before the store is shared, no worker is
\* inside Add, Remove or Clear while another is inside a method that reads
\* or writes the map (readers overlap only readers); the lock is held by
\* the workers inside a locking method and by no one else, so that it is
\* free when all calls have returned; and when calls that were all Adds of
\* distinct keys have returned, Size() is their number.
C17_StoreLocked ==
    store.threadSafeEnabled =>
        /\ \A w, v \in Workers :
              (w # v /\ inside[w] # Outside /\ inside[v] # Outside)
                 => ~(/\ StoreAccess(inside[w].op).values = "w"
                      /\ StoreAccess(inside[v].op).values # "-")
        /\ \A w \in Workers :
              /\ mutex.writer = w => StoreAccess(inside[w].op).lock = "Lock"
              /\ w \in mutex.readers => StoreAccess(inside[w].op).lock = "RLock"
        /\ mutex.writer \in Workers \cup {0}
        /\ AllOutside => mutex = Unlocked
        /\ (tally.distinctAdds /\ AllOutside) => Size = tally.calls

\* two readers are inside together, on a store that holds a value
C17_Witness ==
    /\ store.threadSafeEnabled
    /\ inside[1].op = "Get" /\ inside[2].op = "Size"
    /\ mutex.readers = Workers
    /\ Size = 1

\* C18: after any sequence of calls, the write count is the number of Add
\* calls since the last ResetStatistics (Remove and Clear are not counted),
\* the read count the number of Get calls since then that found their key,
\* the serialization count the number of Serialize, ToJSON and
\* SerializeBinary calls since then; ResetStatistics leaves the three at 0
\* and the stored values as they were.
C18_Statistics ==
    tally.sequential =>
        /\ store.writeCount = tally.adds
        /\ store.readCount = tally.hits
        /\ store.serializationCount = tally.serializations
        /\ last.op = "ResetStatistics" =>
              /\ store.writeCount = 0 /\ store.readCount = 0
              /\ store.serializationCount = 0
              /\ store.values = last.found

\* two Adds and a Remove have returned: the write count is 2
C18_Witness ==
    /\ tally.sequential /\ AllOutside
    /\ last.op = "Remove" /\ last.ret.b
    /\ store.writeCount = 2 /\ tally.calls = 3

\* C19: after any sequence of calls the store is a map from keys to values.
\* Add(k, v) binds k to v, replacing the value of k if there was one and
\* then leaving Size as it was; Get(k) returns the value of k, nil if k is
\* absent; Contains(k) is true exactly when k is present; Remove(k) returns
\* true and deletes k when k is present, and returns false and changes
\* nothing otherwise; Clear leaves no key; Size() is the number of keys
\* present and Empty() is true exactly when that is 0.
C19_Map ==
    tally.sequential =>
        LET k == last.key
            was == last.found
            now == store.values
        IN  CASE last.op = "Add" ->
                   /\ DOMAIN now = DOMAIN was \cup {k}
                   /\ now[k] = last.value
                   /\ \A j \in DOMAIN was \ {k} : now[j] = was[j]
                   /\ k \in DOMAIN was => Cardinality(DOMAIN now) = Cardinality(DOMAIN was)
              [] last.op = "Get" ->
                   /\ last.ret.v = (IF k \in DOMAIN was THEN was[k] ELSE 0)
                   /\ now = was
              [] last.op = "Contains" ->
                   /\ last.ret.b = (k \in DOMAIN was)
                   /\ now = was
              [] last.op = "Remove" ->
                   /\ last.ret.b = (k \in DOMAIN was)
                   /\ DOMAIN now = DOMAIN was \ {k}
                   /\ \A j \in DOMAIN now : now[j] = was[j]
              [] last.op = "Clear" -> DOMAIN now = {} /\ Size = 0
              [] last.op = "Size" ->
                   last.ret.n = Cardinality(DOMAIN was) /\ now = was
              [] last.op = "Empty" ->
                   (last.ret.b <=> Cardinality(DOMAIN was) = 0) /\ now = was
              [] OTHER -> TRUE

\* an Add has replaced the value of a key, next to another key
C19_Witness ==
    /\ tally.sequential /\ AllOutside
    /\ last.op = "Add" /\ last.key \in DOMAIN last.found
    /\ last.found[last.key] # last.value
    /\ Size = 2

(***************************************************************************)
(* Properties of ValueContainer.Copy (under SpecCopy).                     *)
(***************************************************************************)
\* C20: Copy(true) returns a new container with the six header fields and
\* the values of the original, in their order, and Copy(false) one with the
\* header fields and no values; Copy leaves the original as it was, and
\* after it each container holds what its own AddValue, RemoveValue and
\* ClearValues calls leave in it, whatever is done to the other container.
C20_Copy ==
    /\ Elems(heap, boxes.orig.units) = expect.orig
    /\ boxes.orig.header = <<"source", "sourceSub", "target", "targetSub",
                             "messageType", "1.0.0.0">>
    /\ boxes.dup # NoContainer =>
          /\ Elems(heap, boxes.dup.units) = expect.dup
          /\ boxes.dup.header = boxes.orig.header

\* a value added to the original after a Copy(true) of three values, the
\* copy having been given a fourth value of its own
C20_Witness ==
    /\ boxes.dup # NoContainer
    /\ boxes.orig.units.len = 4 /\ boxes.dup.units.len = 4
    /\ Elems(heap, boxes.orig.units)[4] # Elems(heap, boxes.dup.units)[4]
    /\ SubSeq(Elems(heap, boxes.orig.units), 1, 3) = SubSeq(Elems(heap, boxes.dup.units), 1, 3)

(***************************************************************************)
(* Properties of the length fields of the wire format (under SpecCodec).   *)
(***************************************************************************)
\* the name_len field of the buffer, or the payload_len field behind the
\* name, declares more bytes than the buffer holds behind the field
DeclaresTooMuch ==
    /\ buf.len >= 5
    /\ LET nameLen == intOf(readU32(buf, 1))
       IN  \/ nameLen > buf.len - 5
           \/ /\ buf.len >= 5 + nameLen + 4
              /\ intOf(readU32(buf, 5 + nameLen)) > buf.len - (5 + nameLen + 4)

\* the kinds whose payload has one width, and the decoder has a branch for
FixedWidth ==
    {BoolValue, ShortValue, UShortValue, IntValue, UIntValue, LLongValue,
     ULLongValue, FloatValue, DoubleValue}

\* C23: a decoder given a buffer whose name_len or payload_len declares more
\* bytes than remain in the buffer returns an error: it does not panic and
\* reads no byte at an index >= the length of the buffer.
C23_LengthsChecked ==
    (pc = "decoded" /\ DeclaresTooMuch) => (res.status = "err" /\ ~res.oob)

\* C24: DeserializeArrayValue rejects with an error an array buffer whose
\* payload_len differs from the number of bytes that the element count and
\* the elements take.
C24_PayloadLenMatches ==
    (pc = "decoded" /\ org = "payload_len" /\ val.typ = "ArrayValue"
        /\ res.fn = "DeserializeArrayValue")
    => res.status = "err"

\* C25: deserializeValue rejects with an error a value of a kind of fixed
\* width whose payload_len is not that width.
C25_FixedWidth ==
    (pc = "decoded" /\ org = "payload_len" /\ val.kind \in FixedWidth
        /\ res.fn = "deserializeValue")
    => res.status = "err"

\* the bytes of the elements of an array, as ToBinaryBytes writes them
RECURSIVE ElementBytes(_)
ElementBytes(vs) ==
    IF vs = <<>> THEN <<>> ELSE ToBytes(Head(vs)).r.s \o ElementBytes(Tail(vs))

\* C26: ToBinaryBytes of an array writes the tag 15, the length of the name
\* in 4 little-endian bytes, the name, payload_len in 4 little-endian bytes,
\* the number of elements in 4 little-endian bytes and the encodings of the
\* elements in their order, where payload_len is 4 plus the lengths of the
\* encodings of the elements; the output has 1 + 4 + len(name) + 4 +
\* payload_len bytes, and Size() of the array is that payload_len.
C26_Layout ==
    (pc = "encoded" /\ org = "ToBytes" /\ val.typ = "ArrayValue") =>
        LET elements == ElementBytes(val.elems)
            payloadLen == 4 + Len(elements)
        IN  /\ buf.arr = <<15>> \o le32(Len(val.name)) \o val.name
                           \o le32(payloadLen) \o le32(Len(val.elems)) \o elements
            /\ buf.len = 1 + 4 + Len(val.name) + 4 + payloadLen
            /\ ArrayValue_Size(val) = payloadLen

\* C27: a decoder that returns an error returns no value with it.
C27_NoPartialValue ==
    (pc = "decoded" /\ res.status = "err") => res.value = Nil

\* an array of two elements whose second element is cut: the first element
\* was decoded before the error
C27_Witness ==
    /\ pc = "decoded" /\ org = "prefix"
    /\ res.fn = "DeserializeArrayValue" /\ res.status = "err"
    /\ val.typ = "ArrayValue" /\ Len(val.elems) = 2
    /\ buf.len > CountOffset(val) + 4 + Len(ToBytes(val.elems[1]).r.s)

\* C29: DeserializeArrayValue ends on every buffer, with a value or with an
\* error: a decoded element takes 10 bytes at least, so an array of n
\* elements is read from n * 10 bytes at least behind the element count,
\* an element count that the bytes do not hold ends the loop with an
\* error, and an element with the tag of an array is an error of the
\* element decoder, which does not decode arrays.
C29_Terminates ==
    /\ (pc = "decoded" /\ res.fn = "DeserializeArrayValue") =>
          /\ res.status \in {"ok", "err"}
          /\ res.status = "ok" =>
                res.n >= 13 + intOf(readU32(buf, 1)) + 10 * Len(res.value.elems)
    /\ (pc = "decoded" /\ res.fn = "deserializeValue") =>
          /\ res.status = "ok" => res.n >= 10
          /\ (buf.len >= 1 /\ buf.arr[1] = ArrayValue) => res.status = "err"

(***************************************************************************)
(* Properties of the kinds as text (under SpecKind).                       *)
(***************************************************************************)
Kinds == NullValue..ArrayValue

\* C22: the 16 kinds have the codes 0..15, each kind one code of its own;
\* String of a kind is its code in decimal digits and ParseValueType of
\* that text is the kind again; ParseValueType of the text of a code
\* outside 0..15 is rejected with an error (it is not the Null kind).
C22_Codes ==
    /\ \A j, k \in Kinds : ValueType_String(j) = ValueType_String(k) => j = k
    /\ text.of \in Kinds => text.s = Itoa(text.of)
    /\ parsed.from \in Kinds => (parsed.vt = parsed.from /\ ~parsed.err)
    /\ (parsed # NotParsed /\ parsed.s \notin {Itoa(k) : k \in Kinds}) => parsed.err

(***************************************************************************)
(* Properties of the header line (under SpecHeader).                       *)
(***************************************************************************)
HeaderOf(c) ==
    <<c.sourceID, c.sourceSubID, c.targetID, c.targetSubID, c.messageType,
      c.version>>

\* C21: Deserialize (DeserializeArray) on a fresh container, given what
\* Serialize (SerializeArray) of a container returned, returns no error and
\* leaves the fresh container with the source ID, source sub-ID, target ID,
\* target sub-ID, message type and version of that container.
C21_HeaderRestored ==
    phase = "loaded" => (~loaded.err /\ HeaderOf(loaded.c) = HeaderOf(sender))

(***************************************************************************)
(* Properties of DeserializeBinary (under SpecBinary).                     *)
(***************************************************************************)
\* C28: DeserializeBinary reads no byte outside its input and does not
\* panic, whatever the bytes are; an input of fewer than 5 bytes, a proper
\* prefix of an encoded store, a version byte other than 1, and a key or
\* value length that declares more bytes than the input holds behind it
\* each yield an error, and with an error no store is returned.
C28_BinaryChecked ==
    stage = "decoded" =>
        /\ out.status \in {"ok", "err"} /\ ~out.oob
        /\ bin.len < 5 => out.status = "err"
        /\ origin.kind \in {"prefix", "version"} => out.status = "err"
        /\ (origin.kind = "length"
              /\ origin.at + 4 + intOf(readU32(bin, origin.at)) > bin.len)
           => out.status = "err"
        /\ out.status = "err" => out.store = NoStore
        /\ out.status = "ok" => ~out.store.nil

\* the value length of the second of two entries declares 200 bytes: the
\* first entry was read before the error
C28_Witness ==
    /\ stage = "decoded" /\ out.status = "err" /\ out.factory = "any"
    /\ Len(entries) = 2
    /\ origin.kind = "length" /\ origin.at > EntryOffset(entries, 2)
    /\ intOf(readU32(bin, origin.at)) = 200

(***************************************************************************)
(* Properties of ContainerBuilder (under SpecBuilder).                     *)
(***************************************************************************)
\* C30: the values of a container that a builder built are the values the
\* builder held when it built it, followed by the values added to that
\* container, in their order: no later WithValues on the builder, no second
\* Build and no AddValue on another container of the builder changes them.
C30_OwnValues ==
    \A t \in Built :
        built[t] # NotBuilt => Elems(arrays, built[t].units) = wanted[t]

====
